---- MODULE Spec2Model ----
(***************************************************************************)
(* WaveEmitter (core/shark_turbine/kernel/functional/codegen.py): the      *)
(* lowering of a traced fx graph into a block of vector instructions.      *)
(*                                                                         *)
(* The emitter is single-threaded and synchronous, so every public method  *)
(* (bind_node_proxy, bind_node_proxies, lookup_node_values, emit,          *)
(* emit_subgraph, finish) is one atomic action; the handlers it calls are  *)
(* operators over the emitter state.                                       *)
(***************************************************************************)
EXTENDS Integers, Sequences, FiniteSets, TLC

\* ---------------------------------------------------------------- bounds
\* Number of call/output nodes that follow the placeholder of the root graph.
MaxBody == 2
\* Number of public method calls made on one emitter.
MaxCalls == 2
\* Number of calls made on one compiled-module class info.
MaxExports == 2

\* ------------------------------------------------------- program constants
\* The fixed tile extent of the read handler: cast_py_literal(emitter, (16, 16)).
TileDim == 16

\* ------------------------------------------------------------- value model
None == "None"
Lit == 0                      \* an argument that is a Python literal, not a node

F32 == "f32"
I32 == "i32"
MemRefOf(rank, elem) == [kind |-> "memref", rank |-> rank, elem |-> elem]
MemRef(rank) == MemRefOf(rank, F32)
Vector(rank) == [kind |-> "vector", rank |-> rank, elem |-> F32]
NoType == [kind |-> "none", rank |-> 0, elem |-> F32]

\* An IR value: where it came from (the bound signature, a proxy handed in by
\* the caller, or the result of the instruction at position id of the block).
SigValue(n, ty) == [src |-> "sig", id |-> n, ty |-> ty]
OpValue(pos, ty) == [src |-> "op", id |-> pos, ty |-> ty]
ProxyValue(k, ty) == [src |-> "proxy", id |-> k, ty |-> ty]

\* ------------------------------------------------------------ traced graph
\* Operation kinds a call_function node may target.  "unreg" stands for any
\* kind for which no module ever registered a handler.
KindCall == "operator.call"
KindRead == "read"
KindWrite == "write"
KindMma == "mma"
KindUnreg == "unreg"
Kinds == {KindCall, KindRead, KindWrite, KindMma, KindUnreg}

\* An fx.Node: op, target, args and the declared type of its result.
FxNode(op, target, args, ty) == [op |-> op, target |-> target, args |-> args, ty |-> ty]
Placeholder(ty) == FxNode("placeholder", None, <<>>, ty)
Output(args) == FxNode("output", None, args, NoType)
CallNode(target, args) == FxNode("call_function", target, args, Vector(2))

\* The shapes a body node of the root graph may take.  buf is the graph's
\* buffer placeholder, prev the node declared just before this one.
Templates == {"read", "read_bad", "write", "write_bad", "mma", "mma_bad",
              "unreg", "call", "output"}
NodeOf(tmpl, buf, prev) ==
    CASE tmpl = "read"      -> CallNode(KindRead, <<buf, Lit>>)
      [] tmpl = "read_bad"  -> CallNode(KindRead, <<buf>>)
      [] tmpl = "write"     -> CallNode(KindWrite, <<prev, buf, Lit>>)
      [] tmpl = "write_bad" -> CallNode(KindWrite, <<prev, buf>>)
      [] tmpl = "mma"       -> CallNode(KindMma, <<buf, prev, prev>>)
      [] tmpl = "mma_bad"   -> CallNode(KindMma, <<prev, prev>>)
      [] tmpl = "unreg"     -> CallNode(KindUnreg, <<prev>>)
      [] tmpl = "call"      -> CallNode(KindCall, <<prev>>)
      [] tmpl = "output"    -> Output(<<prev>>)

\* Node identities.  The root graph is node 1 (the buffer placeholder) followed
\* by the body; the one nested subgraph has two free-variable placeholders, a
\* read of the first, a write of that tile into the second, and an output.
RootNodes == 1 .. (1 + MaxBody)
RootBuf == CHOOSE n \in RootNodes : \A m \in RootNodes : n <= m
FirstBody == RootBuf + 1
SubBase == 1 + MaxBody
FreeVar1 == SubBase + 1
FreeVar2 == SubBase + 2
SubRead == SubBase + 3
SubWrite == SubBase + 4
SubOut == SubBase + 5
Nodes == 1 .. SubOut

Bodies == [1 .. MaxBody -> Templates]

\* The CapturedTrace built from a body: its nodes, the root graph's node
\* order, the subgraph's node order and region_graph.inner_freevars[subgraph].
TraceOf(body) ==
    [nodes |-> [n \in Nodes |->
                  IF n = RootBuf THEN Placeholder(MemRef(2))
                  ELSE IF n \in RootNodes THEN NodeOf(body[n - 1], RootBuf, n - 1)
                  ELSE IF n = FreeVar1 THEN Placeholder(MemRef(2))
                  ELSE IF n = FreeVar2 THEN Placeholder(MemRef(2))
                  ELSE IF n = SubRead THEN CallNode(KindRead, <<FreeVar1, Lit>>)
                  ELSE IF n = SubWrite THEN CallNode(KindWrite, <<SubRead, FreeVar2, Lit>>)
                  ELSE Output(<<SubRead>>)],
     root |-> [i \in RootNodes |-> i],
     sub |-> <<FreeVar1, FreeVar2, SubRead, SubWrite, SubOut>>,
     freevars |-> <<FreeVar1, FreeVar2>>]

Traces == {TraceOf(body) : body \in Bodies}

\* ------------------------------------------------------------ emitter state
VARIABLES
    trace,          \* self.trace: the CapturedTrace given to the constructor
    node_values,    \* self._node_values: dict node -> list of values
    meta,           \* node.meta["unsigned"] of every node that has the key
    block,          \* the instructions at self.ip, the entry block, in order
    OP_HANDLERS,    \* WaveEmitter.OP_HANDLERS: dict kind -> handler
    resolved,       \* history: the nodes passed to root_sig.resolve_by_reference
    dispatched,     \* history: the nodes for which a handler was invoked
    calls,          \* history: the public methods called on this emitter, in order
    last,           \* history: the last call, its inputs, pre-state and outcome
    first_pass,     \* history: the outcome of emit() as the first call on the
                    \* first emitter built for the trace
    all_exports,    \* CompiledModuleClassInfo.all_exports: dict key -> exportable
    export_calls    \* history: the calls made on the class info, with their
                    \* inputs, pre-state and outcome

vars == <<trace, node_values, meta, block, OP_HANDLERS, resolved, dispatched, calls, last,
          first_pass, all_exports, export_calls>>

\* Sequencing: the value of x is computed once and handed to F.
Then(x, F(_)) == CHOOSE v \in {F(y) : y \in {x}} : TRUE

\* A Python dict as a function on its set of keys.
Put(d, k, v) == [x \in (DOMAIN d) \cup {k} |-> IF x = k THEN v ELSE d[x]]
EmptyDict == [x \in {} |-> 0]

\* Outcomes: normal return or the exception that propagates to the caller.
\* An exception is its class and what its message holds: the fixed text, the
\* two numbers, the operation kind and the node the f-string interpolates.
NoNode == 0
NoErr == [type |-> "ok", msg |-> "", a |-> 0, b |-> 0, kind |-> None, node |-> NoNode]
Raise(type, msg, a, b, kind) ==
    [type |-> type, msg |-> msg, a |-> a, b |-> b, kind |-> kind, node |-> NoNode]
Rebind(n) == [Raise("AssertionError", "Cannot rebind node", n, 0, None) EXCEPT !.node = n]
Ok(err) == err.type = "ok"

\* A Python return value that is either None or a tuple of arguments.
RetNone == [some |-> FALSE, args |-> <<>>]
RetArgs(args) == [some |-> TRUE, args |-> args]

\* The part of the state the emitter's methods and the handlers work on.
EmitterState == [nv |-> node_values, meta |-> meta, block |-> block,
                 resolved |-> resolved, dispatched |-> dispatched, debugger |-> FALSE]

\* One instruction of the block.  node is the graph node whose handler emitted
\* it (0 for finish), ty its result type, map a minor-identity map <<dims,
\* results>>, shape a vector shape, operands the values it uses.
NoMap == <<>>
\* A typed attribute: the number val of element type elem.
TypedAttr(elem, val) == [elem |-> elem, val |-> val]
NoValue == [elem |-> None, val |-> -1]
Instr(op, node, ty, shape, map, operands) ==
    [op |-> op, node |-> node, ty |-> ty, shape |-> shape, map |-> map,
     operands |-> operands, roles |-> <<>>, value |-> NoValue]
Emitted(e, ins) == [e EXCEPT !.block = Append(@, ins)]
\* The value an instruction just appended to the block defines.
LastResult(e) == OpValue(Len(e.block), e.block[Len(e.block)].ty)

IndexType == [kind |-> "index", rank |-> 0, elem |-> "index"]
Scalar(elem) == [kind |-> "scalar", rank |-> 0, elem |-> elem]

\* arith_d.constant(type, value)
Constant(n, ty, value) ==
    [Instr("arith.constant", n, ty, <<>>, NoMap, <<>>) EXCEPT !.value = value]
\* ScalarBuilder.zero_attr(element_type): the zero of the element type.
ZeroAttr(element_type) == TypedAttr(element_type, 0)

\* AffineMap.get_minor_identity(dims, results)
MinorIdentity(dims, results) == <<dims, results>>

\* --------------------------------------------------------- bound signature
\* root_sig.resolve_by_reference(("node", node)): the signature's value for a
\* graph element, the same value at every call.
ResolveByReference(n) == SigValue(n, trace.nodes[n].ty)

\* ------------------------------------------------------- binding the nodes
\* NodeAttrs: attrs is None (given = FALSE) or NodeAttrs(unsigned).
NoAttrs == [given |-> FALSE, unsigned |-> FALSE]
Attrs(unsigned) == [given |-> TRUE, unsigned |-> unsigned]

NodeAttrsLoadUnsigned(m, n) == IF n \in Nodes /\ n \in DOMAIN m THEN m[n] ELSE TRUE
\* NodeAttrs.load(py_value): the flag stored in the meta of a node, False for
\* a node without one and for a value that is not a node.
NodeAttrsLoad(m, n) == IF n \in Nodes /\ n \in DOMAIN m THEN m[n] ELSE FALSE
\* NodeAttrs.store(node)
NodeAttrsStoreAll(m, attrs, n) == [x \in Nodes |-> attrs.unsigned]
NodeAttrsStore(m, attrs, n) == Put(m, n, attrs.unsigned)

LookupNodeValuesFalsy(e, n) ==
    IF n \in DOMAIN e.nv /\ e.nv[n] # <<>>
    THEN [e |-> e, values |-> e.nv[n]]
    ELSE LET values == <<ResolveByReference(n)>>
         IN [e |-> [e EXCEPT !.nv = Put(@, n, values),
                             !.resolved = Append(@, n)],
             values |-> values]

LookupNodeValuesNoCache(e, n) ==
    IF n \in DOMAIN e.nv
    THEN [e |-> e, values |-> e.nv[n]]
    ELSE LET values == <<ResolveByReference(n)>>
         IN [e |-> [e EXCEPT !.resolved = Append(@, n)],
             values |-> values]

\* WaveEmitter.lookup_node_values
LookupNodeValues(e, n) ==
    IF n \in DOMAIN e.nv
    THEN [e |-> e, values |-> e.nv[n]]
    ELSE LET values == <<ResolveByReference(n)>>
         IN [e |-> [e EXCEPT !.nv = Put(@, n, values),
                             !.resolved = Append(@, n)],
             values |-> values]

BindNodeProxies(e, n, proxies, attrs) ==
    IF n \in DOMAIN e.nv
    THEN [e |-> e, err |-> Rebind(n)]
    ELSE [e |-> [e EXCEPT !.meta = IF attrs.given THEN NodeAttrsStore(@, attrs, n) ELSE @,
                          !.nv = Put(@, n, proxies)],
          err |-> NoErr]

BindNodeProxyOverFallback(e, n, proxy, attrs) ==
    IF n \in DOMAIN e.nv /\ e.nv[n] # <<ResolveByReference(n)>>
    THEN [e |-> e, err |-> Rebind(n)]
    ELSE [e |-> [e EXCEPT !.meta = IF attrs.given THEN NodeAttrsStore(@, attrs, n) ELSE @,
                          !.nv = Put(@, n, <<proxy>>)],
          err |-> NoErr]

BindNodeProxyRebind(e, n, proxy, attrs) ==
    [e |-> [e EXCEPT !.meta = IF attrs.given THEN NodeAttrsStore(@, attrs, n) ELSE @,
                     !.nv = Put(@, n, <<proxy>>)],
     err |-> NoErr]

BindNodeProxy(e, n, proxy, attrs) ==
    IF n \in DOMAIN e.nv
    THEN [e |-> e, err |-> Rebind(n)]
    ELSE [e |-> [e EXCEPT !.meta = IF attrs.given THEN NodeAttrsStore(@, attrs, n) ELSE @,
                          !.nv = Put(@, n, <<proxy>>)],
          err |-> NoErr]

\* ------------------------------------------------------------- conversions
\* cast_kernel_buffer(emitter, memory): the buffer's value; its memref type
\* gives the rank and the element type.
CastKernelBuffer(e, memory) ==
    IF memory = Lit
    THEN [e |-> e, err |-> Raise("CodegenError", "Expected a node", 0, 0, None),
          value |-> SigValue(0, NoType)]
    ELSE Then(LookupNodeValues(e, memory), LAMBDA r :
            IF Len(r.values) # 1 \/ r.values[1].ty.kind # "memref"
            THEN [e |-> r.e,
                  err |-> Raise("CodegenError", "Expected a KernelBuffer", memory, 0, None),
                  value |-> SigValue(0, NoType)]
            ELSE [e |-> r.e, err |-> NoErr, value |-> r.values[1]])

\* cast_vector(emitter, value): the operand as a vector; a literal becomes a
\* constant, and a value that is not a vector is splatted to a rank-0 vector.
CastVector(e, n, operand) ==
    Then(IF operand = Lit
         THEN Then(Emitted(e, Instr("arith.constant", n, Scalar(F32), <<>>, NoMap, <<>>)),
                   LAMBDA e1 : [e |-> e1, values |-> <<LastResult(e1)>>])
         ELSE LookupNodeValues(e, operand),
         LAMBDA r :
       IF Len(r.values) # 1
       THEN [e |-> r.e,
             err |-> Raise("CodegenError", "Expected exactly one value", operand, 0, None),
             value |-> SigValue(0, NoType)]
       ELSE IF r.values[1].ty.kind = "vector"
       THEN [e |-> r.e, err |-> NoErr, value |-> r.values[1]]
       ELSE Then(Emitted(r.e, Instr("vector.splat", n, Vector(0), <<>>, NoMap,
                                    <<r.values[1]>>)),
                 LAMBDA e2 : [e |-> e2, err |-> NoErr, value |-> LastResult(e2)]))

\* ---------------------------------------------------------------- handlers
\* Every handler takes the emitter state and a node and returns the new
\* state and the outcome.
MalformedAsCodegen == Raise("CodegenError", "Malformed arguments", 0, 0, None)
MalformedArguments == Raise("ValidationError", "Malformed arguments", 0, 0, None)
ConstantIndex(n) == Constant(n, IndexType, TypedAttr(IndexType.elem, 0))

\* @handle_op(py_operator.call): breakpoint() suspends the process in the
\* debugger; once resumed the handler returns without binding anything.
HandleCall(e, n) == [e |-> [e EXCEPT !.debugger = TRUE], err |-> NoErr]

HandleReadPadF32(e, n) ==
    LET args == trace.nodes[n].args
    IN IF Len(args) # 2
       THEN [e |-> e, err |-> MalformedArguments]
       ELSE
       LET vector_shape == <<TileDim, TileDim>>
       IN Then(CastKernelBuffer(e, args[1]), LAMBDA kb :
          IF ~Ok(kb.err)
          THEN [e |-> kb.e, err |-> kb.err]
          ELSE
          LET ref_rank == kb.value.ty.rank
              element_type == kb.value.ty.elem
              e1 == Emitted(kb.e, ConstantIndex(n))
              i1 == LastResult(e1)
              e2 == Emitted(e1, ConstantIndex(n))
              i2 == LastResult(e2)
              pad_attr == ZeroAttr(F32)
              e3 == Emitted(e2, Constant(n, Scalar(F32), pad_attr))
              pad_value == LastResult(e3)
          IN Then(Emitted(e3, Instr("vector.transfer_read", n,
                                    [kind |-> "vector", rank |-> Len(vector_shape),
                                     elem |-> element_type],
                                    vector_shape,
                                    MinorIdentity(ref_rank, Len(vector_shape)),
                                    <<kb.value, i1, i2, pad_value>>)),
                  LAMBDA e4 : BindNodeProxy(e4, n, LastResult(e4), NoAttrs)))

HandleReadNoBind(e, n) ==
    LET args == trace.nodes[n].args
    IN IF Len(args) # 2
       THEN [e |-> e, err |-> MalformedArguments]
       ELSE
       LET vector_shape == <<TileDim, TileDim>>
       IN Then(CastKernelBuffer(e, args[1]), LAMBDA kb :
          IF ~Ok(kb.err)
          THEN [e |-> kb.e, err |-> kb.err]
          ELSE
          LET ref_rank == kb.value.ty.rank
              element_type == kb.value.ty.elem
              e1 == Emitted(kb.e, ConstantIndex(n))
              i1 == LastResult(e1)
              e2 == Emitted(e1, ConstantIndex(n))
              i2 == LastResult(e2)
              pad_attr == ZeroAttr(element_type)
              e3 == Emitted(e2, Constant(n, Scalar(element_type), pad_attr))
              pad_value == LastResult(e3)
          IN Then(Emitted(e3, Instr("vector.transfer_read", n,
                                    [kind |-> "vector", rank |-> Len(vector_shape),
                                     elem |-> element_type],
                                    vector_shape,
                                    MinorIdentity(ref_rank, Len(vector_shape)),
                                    <<kb.value, i1, i2, pad_value>>)),
                  LAMBDA e4 : [e |-> e4, err |-> NoErr]))

\* @handle_op(read)
HandleRead(e, n) ==
    LET args == trace.nodes[n].args
    IN IF Len(args) # 2
       THEN [e |-> e, err |-> MalformedArguments]
       ELSE
       LET vector_shape == <<TileDim, TileDim>>
       IN Then(CastKernelBuffer(e, args[1]), LAMBDA kb :
          IF ~Ok(kb.err)
          THEN [e |-> kb.e, err |-> kb.err]
          ELSE
          LET ref_rank == kb.value.ty.rank
              element_type == kb.value.ty.elem
              e1 == Emitted(kb.e, ConstantIndex(n))
              i1 == LastResult(e1)
              e2 == Emitted(e1, ConstantIndex(n))
              i2 == LastResult(e2)
              pad_attr == ZeroAttr(element_type)
              e3 == Emitted(e2, Constant(n, Scalar(element_type), pad_attr))
              pad_value == LastResult(e3)
          IN Then(Emitted(e3, Instr("vector.transfer_read", n,
                                    [kind |-> "vector", rank |-> Len(vector_shape),
                                     elem |-> element_type],
                                    vector_shape,
                                    MinorIdentity(ref_rank, Len(vector_shape)),
                                    <<kb.value, i1, i2, pad_value>>)),
                  LAMBDA e4 : BindNodeProxy(e4, n, LastResult(e4), NoAttrs)))

HandleWriteNoCheck(e, n) ==
    LET args == trace.nodes[n].args
    IN IF Len(args) # 3
       THEN [e |-> e, err |-> MalformedArguments]
       ELSE
       Then(CastKernelBuffer(e, args[2]), LAMBDA kb :
          IF ~Ok(kb.err)
          THEN [e |-> kb.e, err |-> kb.err]
          ELSE
          LET dest_rank == kb.value.ty.rank
              element_type == kb.value.ty.elem
              e1 == Emitted(kb.e, ConstantIndex(n))
              i1 == LastResult(e1)
              e2 == Emitted(e1, ConstantIndex(n))
              i2 == LastResult(e2)
              start_indices == <<i1, i2>>
          IN IF FALSE
             THEN [e |-> e2,
                   err |-> Raise("CodegenError", "Mismatched slice assignment",
                                 dest_rank, Len(start_indices), None)]
             ELSE
             Then(CastVector(e2, n, args[1]), LAMBDA cv :
                IF ~Ok(cv.err)
                THEN [e |-> cv.e, err |-> cv.err]
                ELSE
                LET insert_rank == cv.value.ty.rank
                    e3 == IF insert_rank = 0
                          THEN Emitted(cv.e, Instr("vector.broadcast", n,
                                   [kind |-> "vector", rank |-> dest_rank,
                                    elem |-> element_type],
                                   [i \in 1 .. dest_rank |-> 1], NoMap, <<cv.value>>))
                          ELSE cv.e
                    insert_vector == IF insert_rank = 0 THEN LastResult(e3) ELSE cv.value
                    e4 == Emitted(e3, Instr("vector.transfer_write", n, NoType, <<>>,
                                            MinorIdentity(dest_rank, insert_rank),
                                            <<insert_vector, kb.value>> \o start_indices))
                IN [e |-> e4, err |-> NoErr]))

HandleWriteBinds(e, n) ==
    LET args == trace.nodes[n].args
    IN IF Len(args) # 3
       THEN [e |-> e, err |-> MalformedArguments]
       ELSE
       Then(CastKernelBuffer(e, args[2]), LAMBDA kb :
          IF ~Ok(kb.err)
          THEN [e |-> kb.e, err |-> kb.err]
          ELSE
          LET dest_rank == kb.value.ty.rank
              element_type == kb.value.ty.elem
              e1 == Emitted(kb.e, ConstantIndex(n))
              i1 == LastResult(e1)
              e2 == Emitted(e1, ConstantIndex(n))
              i2 == LastResult(e2)
              start_indices == <<i1, i2>>
          IN IF dest_rank # Len(start_indices)
             THEN [e |-> e2,
                   err |-> Raise("CodegenError", "Mismatched slice assignment",
                                 dest_rank, Len(start_indices), None)]
             ELSE
             Then(CastVector(e2, n, args[1]), LAMBDA cv :
                IF ~Ok(cv.err)
                THEN [e |-> cv.e, err |-> cv.err]
                ELSE
                LET insert_rank == cv.value.ty.rank
                    e3 == IF insert_rank = 0
                          THEN Emitted(cv.e, Instr("vector.broadcast", n,
                                   [kind |-> "vector", rank |-> dest_rank,
                                    elem |-> element_type],
                                   [i \in 1 .. dest_rank |-> 1], NoMap, <<cv.value>>))
                          ELSE cv.e
                    insert_vector == IF insert_rank = 0 THEN LastResult(e3) ELSE cv.value
                    e4 == Emitted(e3, Instr("vector.transfer_write", n, NoType, <<>>,
                                            MinorIdentity(dest_rank, insert_rank),
                                            <<insert_vector, kb.value>> \o start_indices))
                IN BindNodeProxy(e4, n, LastResult(e4), NoAttrs)))

\* @handle_op(write)
HandleWrite(e, n) ==
    LET args == trace.nodes[n].args
    IN IF Len(args) # 3
       THEN [e |-> e, err |-> MalformedArguments]
       ELSE
       Then(CastKernelBuffer(e, args[2]), LAMBDA kb :
          IF ~Ok(kb.err)
          THEN [e |-> kb.e, err |-> kb.err]
          ELSE
          LET dest_rank == kb.value.ty.rank
              element_type == kb.value.ty.elem
              e1 == Emitted(kb.e, ConstantIndex(n))
              i1 == LastResult(e1)
              e2 == Emitted(e1, ConstantIndex(n))
              i2 == LastResult(e2)
              start_indices == <<i1, i2>>
          IN IF dest_rank # Len(start_indices)
             THEN [e |-> e2,
                   err |-> Raise("CodegenError", "Mismatched slice assignment",
                                 dest_rank, Len(start_indices), None)]
             ELSE
             Then(CastVector(e2, n, args[1]), LAMBDA cv :
                IF ~Ok(cv.err)
                THEN [e |-> cv.e, err |-> cv.err]
                ELSE
                LET insert_rank == cv.value.ty.rank
                    e3 == IF insert_rank = 0
                          THEN Emitted(cv.e, Instr("vector.broadcast", n,
                                   [kind |-> "vector", rank |-> dest_rank,
                                    elem |-> element_type],
                                   [i \in 1 .. dest_rank |-> 1], NoMap, <<cv.value>>))
                          ELSE cv.e
                    insert_vector == IF insert_rank = 0 THEN LastResult(e3) ELSE cv.value
                    e4 == Emitted(e3, Instr("vector.transfer_write", n, NoType, <<>>,
                                            MinorIdentity(dest_rank, insert_rank),
                                            <<insert_vector, kb.value>> \o start_indices))
                IN [e |-> e4, err |-> NoErr]))

HandleMmaLhsType(e, n) ==
    LET args == trace.nodes[n].args
    IN IF Len(args) # 3
       THEN [e |-> e, err |-> MalformedArguments]
       ELSE
       Then(CastVector(e, n, args[1]), LAMBDA lhs :
       IF ~Ok(lhs.err) THEN [e |-> lhs.e, err |-> lhs.err] ELSE
       Then(CastVector(lhs.e, n, args[2]), LAMBDA rhs :
       IF ~Ok(rhs.err) THEN [e |-> rhs.e, err |-> rhs.err] ELSE
       Then(CastVector(rhs.e, n, args[3]), LAMBDA acc :
       IF ~Ok(acc.err) THEN [e |-> acc.e, err |-> acc.err] ELSE
          LET contraction ==
                  [Instr("vector.contract", n, lhs.value.ty, <<>>,
                         <<<<0, 2>>, <<2, 1>>, <<0, 1>>>>,
                         <<lhs.value, rhs.value, acc.value>>)
                   EXCEPT !.roles = <<"parallel", "parallel", "reduction">>]
          IN Then(Emitted(acc.e, contraction),
                  LAMBDA e1 : BindNodeProxy(e1, n, LastResult(e1), NoAttrs)))))

\* @handle_op(mma)
HandleMma(e, n) ==
    LET args == trace.nodes[n].args
    IN IF Len(args) # 3
       THEN [e |-> e, err |-> MalformedArguments]
       ELSE
       Then(CastVector(e, n, args[1]), LAMBDA lhs :
       IF ~Ok(lhs.err) THEN [e |-> lhs.e, err |-> lhs.err] ELSE
       Then(CastVector(lhs.e, n, args[2]), LAMBDA rhs :
       IF ~Ok(rhs.err) THEN [e |-> rhs.e, err |-> rhs.err] ELSE
       Then(CastVector(rhs.e, n, args[3]), LAMBDA acc :
       IF ~Ok(acc.err) THEN [e |-> acc.e, err |-> acc.err] ELSE
          LET contraction ==
                  [Instr("vector.contract", n, acc.value.ty, <<>>,
                         <<<<0, 2>>, <<2, 1>>, <<0, 1>>>>,
                         <<lhs.value, rhs.value, acc.value>>)
                   EXCEPT !.roles = <<"parallel", "parallel", "reduction">>]
          IN Then(Emitted(acc.e, contraction),
                  LAMBDA e1 : BindNodeProxy(e1, n, LastResult(e1), NoAttrs)))))

\* The handler functions the decorators register.
Handlers == {"call", "read", "write", "mma"}
Invoke(h, e, n) ==
    CASE h = "call"  -> HandleCall(e, n)
      [] h = "read"  -> HandleRead(e, n)
      [] h = "write" -> HandleWrite(e, n)
      [] h = "mma"   -> HandleMma(e, n)

\* The registry after the module's four @handle_op decorators have run.
InitialHandlers ==
    [k \in {KindCall, KindRead, KindWrite, KindMma} |->
        CASE k = KindCall  -> "call"
          [] k = KindRead  -> "read"
          [] k = KindWrite -> "write"
          [] k = KindMma   -> "mma"]

\* ----------------------------------------------------------------- emitter
EmitFunctionCallNodeSkip(e, n) ==
    LET target_op == trace.nodes[n].target
    IN IF target_op \notin DOMAIN OP_HANDLERS
       THEN [e |-> e, err |-> NoErr]
       ELSE Then([e EXCEPT !.dispatched = Append(@, n)],
                 LAMBDA e1 : Invoke(OP_HANDLERS[target_op], e1, n))

EmitFunctionCallNodeStale(e, n) ==
    LET target_op == trace.nodes[n].target
    IN IF target_op \notin DOMAIN InitialHandlers
       THEN [e |-> e,
             err |-> Raise("CodegenError", "No handler registered for op", 0, 0, target_op)]
       ELSE Then([e EXCEPT !.dispatched = Append(@, n)],
                 LAMBDA e1 : Invoke(InitialHandlers[target_op], e1, n))

\* WaveEmitter.emit_function_call_node
EmitFunctionCallNode(e, n) ==
    LET target_op == trace.nodes[n].target
    IN IF target_op \notin DOMAIN OP_HANDLERS
       THEN [e |-> e,
             err |-> Raise("CodegenError", "No handler registered for op", 0, 0, target_op)]
       ELSE Then([e EXCEPT !.dispatched = Append(@, n)],
                 LAMBDA e1 : Invoke(OP_HANDLERS[target_op], e1, n))

RECURSIVE EmitGraphFromNoStop(_, _, _)
EmitGraphFromNoStop(e, graph, i) ==
    IF i > Len(graph)
    THEN [e |-> e, err |-> NoErr, ret |-> RetNone]
    ELSE LET node == trace.nodes[graph[i]]
         IN IF node.op = "call_function"
            THEN Then(EmitFunctionCallNode(e, graph[i]), LAMBDA r :
                    IF Ok(r.err)
                    THEN EmitGraphFromNoStop(r.e, graph, i + 1)
                    ELSE [e |-> r.e, err |-> r.err, ret |-> RetNone])
            ELSE EmitGraphFromNoStop(e, graph, i + 1)

RECURSIVE EmitGraphFromAll(_, _, _)
EmitGraphFromAll(e, graph, i) ==
    IF i > Len(graph)
    THEN [e |-> e, err |-> NoErr, ret |-> RetNone]
    ELSE LET node == trace.nodes[graph[i]]
         IN IF node.op # "output"
            THEN Then(EmitFunctionCallNode(e, graph[i]), LAMBDA r :
                    IF Ok(r.err)
                    THEN EmitGraphFromAll(r.e, graph, i + 1)
                    ELSE [e |-> r.e, err |-> r.err, ret |-> RetNone])
            ELSE IF node.op = "output"
            THEN [e |-> e, err |-> NoErr, ret |-> RetArgs(node.args)]
            ELSE EmitGraphFromAll(e, graph, i + 1)

\* WaveEmitter.emit_graph, from the i-th node of the graph on.
RECURSIVE EmitGraphFrom(_, _, _)
EmitGraphFrom(e, graph, i) ==
    IF i > Len(graph)
    THEN [e |-> e, err |-> NoErr, ret |-> RetNone]
    ELSE LET node == trace.nodes[graph[i]]
         IN IF node.op = "call_function"
            THEN Then(EmitFunctionCallNode(e, graph[i]), LAMBDA r :
                    IF Ok(r.err)
                    THEN EmitGraphFrom(r.e, graph, i + 1)
                    ELSE [e |-> r.e, err |-> r.err, ret |-> RetNone])
            ELSE IF node.op = "output"
            THEN [e |-> e, err |-> NoErr, ret |-> RetArgs(node.args)]
            ELSE EmitGraphFrom(e, graph, i + 1)

EmitGraph(e, graph) == EmitGraphFrom(e, graph, 1)

RECURSIVE SubstituteRelowered(_, _, _, _)
SubstituteRelowered(e, freevars, implicit_capture, i) ==
    IF i > Len(freevars) \/ i > Len(implicit_capture)
    THEN e
    ELSE Then(LookupNodeValues(e, implicit_capture[i]), LAMBDA r :
            Then([r.e EXCEPT !.nv = Put(@, freevars[i],
                                        <<ResolveByReference(implicit_capture[i])>>)],
                 LAMBDA e1 : SubstituteRelowered(e1, freevars, implicit_capture, i + 1)))

\* The loop of emit_subgraph: for freevar, arg in zip(freevars, implicit_capture).
RECURSIVE Substitute(_, _, _, _)
Substitute(e, freevars, implicit_capture, i) ==
    IF i > Len(freevars) \/ i > Len(implicit_capture)
    THEN e
    ELSE Then(LookupNodeValues(e, implicit_capture[i]), LAMBDA r :
            Then([r.e EXCEPT !.nv = Put(@, freevars[i], r.values)],
                 LAMBDA e1 : Substitute(e1, freevars, implicit_capture, i + 1)))

EmitSubgraphLateCheck(e, subgraph, implicit_capture) ==
    LET freevars == trace.freevars
    IN Then(Substitute(e, freevars, implicit_capture, 1), LAMBDA e1 :
       IF Len(freevars) # Len(implicit_capture)
       THEN [e |-> e1,
             err |-> Raise("AssertionError", "Expected implicit capture args",
                           Len(freevars), Len(implicit_capture), None),
             ret |-> RetNone]
       ELSE EmitGraph(e1, subgraph))

\* WaveEmitter.emit_subgraph
EmitSubgraph(e, subgraph, implicit_capture) ==
    LET freevars == trace.freevars
    IN IF Len(freevars) # Len(implicit_capture)
       THEN [e |-> e,
             err |-> Raise("AssertionError", "Expected implicit capture args",
                           Len(freevars), Len(implicit_capture), None),
             ret |-> RetNone]
       ELSE Then(Substitute(e, freevars, implicit_capture, 1),
                 LAMBDA e1 : EmitGraph(e1, subgraph))

EmitRootRollback(e) ==
    Then(EmitGraph(e, trace.root), LAMBDA r :
         IF Ok(r.err) THEN r ELSE [r EXCEPT !.e.block = e.block])

EmitRootFreshTable(e) == EmitGraph([e EXCEPT !.nv = EmptyDict], trace.root)

\* WaveEmitter.emit: the result of emit_graph is dropped.
EmitRoot(e) == EmitGraph(e, trace.root)

\* func_d.ReturnOp([])
ReturnOp == Instr("func.return", 0, NoType, <<>>, NoMap, <<>>)

FinishAtBlockBegin(e) == [e EXCEPT !.block = <<ReturnOp>> \o @]

\* WaveEmitter.finish
FinishBlock(e) == Emitted(e, ReturnOp)

\* ------------------------------------------------------------ the callers
\* Values a caller may bind: a rank-3 buffer, a rank-0 vector, a rank-2 vector
\* and a rank-2 buffer of another element type.
ProxyBuf == ProxyValue(1, MemRef(3))
ProxyBufI32 == ProxyValue(4, MemRefOf(2, I32))
ProxyScalar == ProxyValue(2, Vector(0))
ProxyTile == ProxyValue(3, Vector(2))
\* bind_node_proxy(node, proxy, attrs=...) and bind_node_proxies(node, proxies)
\* as the callers use them.
BindInputs == {[proxy |-> ProxyBuf, attrs |-> NoAttrs],
               [proxy |-> ProxyBufI32, attrs |-> NoAttrs],
               [proxy |-> ProxyScalar, attrs |-> Attrs(TRUE)]}
ProxyLists == {<<>>, <<ProxyTile, ProxyScalar>>}
\* bind_node_proxies(node, proxies) and bind_node_proxies(node, proxies,
\* attrs=NodeAttrs(unsigned=False)).
ProxiesInputs == {[proxies |-> proxies,
                   attrs |-> IF proxies = <<>> THEN NoAttrs ELSE Attrs(FALSE)] :
                  proxies \in ProxyLists}
\* The nodes a caller binds or looks up directly: the root buffer and the
\* first body node of the root graph.
DriverNodes == {RootBuf, FirstBody}
\* implicit_capture lists: nodes of the enclosing graph, of every length up to
\* one more than the subgraph's free variables.
CaptureLists == {<<RootBuf>>, <<RootBuf, FirstBody>>, <<FirstBody, RootBuf>>,
                 <<RootBuf, FirstBody, RootBuf>>}

\* The history of passes: nothing recorded yet, and the record of a pass.
NoPass == [set |-> FALSE, rebuilt |-> FALSE, nv |-> EmptyDict, block |-> <<>>,
           dispatched |-> <<>>, err |-> NoErr, ret |-> RetNone]
PassOf(r_e, err, graph_ret) ==
    [set |-> TRUE, rebuilt |-> FALSE, nv |-> r_e.nv, block |-> r_e.block,
     dispatched |-> r_e.dispatched, err |-> err, ret |-> graph_ret]

Called(op, n, values, attrs, capture, e, r_e, err, ret, graph_ret) ==
    /\ node_values' = r_e.nv
    /\ meta' = r_e.meta
    /\ block' = r_e.block
    /\ resolved' = r_e.resolved
    /\ dispatched' = r_e.dispatched
    /\ calls' = Append(calls, op)
    /\ last' = [op |-> op, node |-> n, values |-> values, attrs |-> attrs,
                capture |-> capture, err |-> err, ret |-> ret,
                graph_ret |-> graph_ret, debugger |-> r_e.debugger,
                kind |-> None, handler |-> None, pre |-> e]
    /\ first_pass' = IF op = "emit" /\ calls = <<>> /\ ~first_pass.set
                     THEN PassOf(r_e, err, graph_ret)
                     ELSE first_pass
    /\ UNCHANGED <<trace, OP_HANDLERS, all_exports, export_calls>>

\* The history record of an emitter on which no method has been called.
NoCall(e) == [op |-> "init", node |-> 0, values |-> <<>>, attrs |-> NoAttrs,
              capture |-> <<>>, err |-> NoErr, ret |-> RetNone,
              graph_ret |-> RetNone, debugger |-> FALSE,
              kind |-> None, handler |-> None, pre |-> e]

FreshEmitterKeepsTable ==
    [nv |-> node_values, meta |-> meta, block |-> <<>>,
     resolved |-> <<>>, dispatched |-> <<>>, debugger |-> FALSE]

\* WaveEmitter.__init__ on the trace: an empty table and an insertion point
\* into the entry block of a new signature; the nodes keep their meta.
FreshEmitter ==
    [nv |-> EmptyDict, meta |-> meta, block |-> <<>>,
     resolved |-> <<>>, dispatched |-> <<>>, debugger |-> FALSE]

Init ==
    /\ trace \in Traces
    /\ node_values = EmptyDict
    /\ meta = EmptyDict
    /\ block = <<>>
    /\ OP_HANDLERS = InitialHandlers
    /\ resolved = <<>>
    /\ dispatched = <<>>
    /\ calls = <<>>
    /\ all_exports = EmptyDict
    /\ export_calls = <<>>
    /\ last = NoCall([nv |-> EmptyDict, meta |-> EmptyDict, block |-> <<>>,
                      resolved |-> <<>>, dispatched |-> <<>>, debugger |-> FALSE])
    /\ first_pass = NoPass

CallLookup ==
    /\ Len(calls) < MaxCalls
    /\ \E n \in DriverNodes :
         \E r \in {LookupNodeValues(EmitterState, n)} :
            Called("lookup_node_values", n, r.values, NoAttrs, <<>>, EmitterState,
                   r.e, NoErr, RetNone, RetNone)

CallBindNodeProxy ==
    /\ Len(calls) < MaxCalls
    /\ \E n \in DriverNodes, in \in BindInputs :
         \E r \in {BindNodeProxy(EmitterState, n, in.proxy, in.attrs)} :
            Called("bind_node_proxy", n, <<in.proxy>>, in.attrs, <<>>, EmitterState,
                   r.e, r.err, RetNone, RetNone)

CallBindNodeProxies ==
    /\ Len(calls) < MaxCalls
    /\ \E n \in DriverNodes, in \in ProxiesInputs :
         \E r \in {BindNodeProxies(EmitterState, n, in.proxies, in.attrs)} :
            Called("bind_node_proxies", n, in.proxies, in.attrs, <<>>, EmitterState,
                   r.e, r.err, RetNone, RetNone)

CallEmit ==
    /\ Len(calls) < MaxCalls
    /\ \E r \in {EmitRoot(EmitterState)} :
          Called("emit", 0, <<>>, NoAttrs, <<>>, EmitterState,
                 r.e, r.err, RetNone, r.ret)

CallEmitSubgraph ==
    /\ Len(calls) < MaxCalls
    /\ \E implicit_capture \in CaptureLists :
         \E r \in {EmitSubgraph(EmitterState, trace.sub, implicit_capture)} :
            Called("emit_subgraph", 0, <<>>, NoAttrs, implicit_capture, EmitterState,
                   r.e, r.err, r.ret, r.ret)

CallFinish ==
    /\ Len(calls) < MaxCalls
    /\ \E e \in {FinishBlock(EmitterState)} :
          Called("finish", 0, <<>>, NoAttrs, <<>>, EmitterState,
                 e, NoErr, RetNone, RetNone)

Next ==
    \/ CallLookup
    \/ CallBindNodeProxy
    \/ CallBindNodeProxies
    \/ CallEmit
    \/ CallEmitSubgraph
    \/ CallFinish

Spec == Init /\ [][Next]_vars

\* ------------------------------------------------------------- two passes
\* A second WaveEmitter is built for the same trace, with the same registry,
\* once the first emitter has run its pass.
NewEmitter ==
    /\ first_pass.set /\ ~first_pass.rebuilt
    /\ \E e \in {FreshEmitter} :
         /\ node_values' = e.nv
         /\ meta' = e.meta
         /\ block' = e.block
         /\ resolved' = e.resolved
         /\ dispatched' = e.dispatched
         /\ last' = NoCall(e)
    /\ calls' = <<>>
    /\ first_pass' = [first_pass EXCEPT !.rebuilt = TRUE]
    /\ UNCHANGED <<trace, OP_HANDLERS, all_exports, export_calls>>

\* The launch path: the caller binds nodes, runs emit() and finish(), and may
\* build a second emitter for the same trace.
NextPasses ==
    \/ CallBindNodeProxy
    \/ CallEmit
    \/ CallFinish
    \/ NewEmitter

SpecPasses == Init /\ [][NextPasses]_vars

\* Callers that walk one graph more than once: emit() and emit_subgraph, the
\* latter also with the same node captured for both free variables.
RecaptureLists == CaptureLists \cup {<<RootBuf, RootBuf>>}

CallEmitSubgraphAgain ==
    /\ Len(calls) < MaxCalls
    /\ \E implicit_capture \in RecaptureLists :
         \E r \in {EmitSubgraph(EmitterState, trace.sub, implicit_capture)} :
            Called("emit_subgraph", 0, <<>>, NoAttrs, implicit_capture, EmitterState,
                   r.e, r.err, r.ret, r.ret)

NextAgain == CallEmit \/ CallEmitSubgraphAgain
SpecAgain == Init /\ [][NextAgain]_vars

\* Callers that work on the binding table: lookups and binds of nodes, and
\* the pass that runs the handlers' binds.
NextTable == CallLookup \/ CallBindNodeProxy \/ CallBindNodeProxies \/ CallEmit
SpecTable == Init /\ [][NextTable]_vars

\* ------------------------------------------------------------ the registry
\* handle_op(op)(f): the decorator stores f under op in the class's table.
HandleOp(handlers, op, f) == Put(handlers, op, f)

\* Late registrations: a handler for a kind that has none, and another
\* handler for a kind that has one.
RegisteredKinds == {KindWrite, KindUnreg}
RegisteredHandlers == {"read", "write"}

CallHandleOp ==
    /\ Len(calls) < MaxCalls
    /\ \E op \in RegisteredKinds, f \in RegisteredHandlers :
         /\ OP_HANDLERS' = HandleOp(OP_HANDLERS, op, f)
         /\ last' = [NoCall(EmitterState) EXCEPT !.op = "handle_op",
                                                 !.kind = op, !.handler = f]
    /\ calls' = Append(calls, "handle_op")
    /\ UNCHANGED <<trace, node_values, meta, block, resolved, dispatched, first_pass,
                   all_exports, export_calls>>

\* Emitters of one process: handlers are registered at any time, emitters
\* run their pass, and a second emitter is built after the first.
NextRegistry == CallHandleOp \/ CallEmit \/ NewEmitter
SpecRegistry == Init /\ [][NextRegistry]_vars

\* --------------------------------------------- compiled module class info
\* Python values: the class of the value, an identity, and its truth value.
PyValue(cls, id, truthy) == [cls |-> cls, id |-> id, truthy |-> truthy]
PyNone == PyValue("NoneType", 0, FALSE)
\* inspect.Parameter.empty: the class inspect._empty, the default of a
\* parameter that has none; like every class it is true.
ParameterEmpty == PyValue("type", 0, TRUE)
\* Defaults a parameter may carry: two argument descriptors, and the int 0.
Descriptor1 == PyValue("AbstractTensor", 1, TRUE)
Descriptor2 == PyValue("AbstractTensor", 2, TRUE)
IntZero == PyValue("int", 0, FALSE)
\* bool(v)
Truthy(v) == v.truthy

\* inspect.Parameter: name, kind and default.
Parameter(name, kind, default) == [name |-> name, kind |-> kind, default |-> default]
POSITIONAL_ONLY == "POSITIONAL_ONLY"
POSITIONAL_OR_KEYWORD == "POSITIONAL_OR_KEYWORD"
KEYWORD_ONLY == "KEYWORD_ONLY"
Positional(name, default) == Parameter(name, POSITIONAL_OR_KEYWORD, default)
\* A plain function, by the parameters inspect.signature(f) reports.
Function(id, parameters) == [cls |-> "function", id |-> id, parameters |-> parameters]
\* PyOnlyDef(py_value)
PyOnlyDef(id) == [cls |-> "PyOnlyDef", id |-> id]
\* ExportFunctionDef(export_name, callable, signature=...)
ExportFunctionDef(export_name, callable, signature) ==
    [cls |-> "ExportFunctionDef", export_name |-> export_name,
     callable |-> callable, signature |-> signature]

\* The outcome of a method of the class info: the exports, the exception
\* and the returned value.
ExportResult(exports, err, ret) == [exports |-> exports, err |-> err, ret |-> ret]
ExportTypeError(msg) == Raise("TypeError", msg, 0, 0, None)

AddExportOverwrite(exports, key, value) ==
    ExportResult(Put(exports, key, value), NoErr, PyNone)

\* CompiledModuleClassInfo.add_export
AddExport(exports, key, value) ==
    IF key \in DOMAIN exports
    THEN ExportResult(exports, ExportTypeError("Cannot export attribute more than once"), PyNone)
    ELSE ExportResult(Put(exports, key, value), NoErr, PyNone)

\* The loop of def_export_function over parameter_list[1:]: the signature
\* collected so far, or the exception of the first parameter it rejects.
RECURSIVE InputSig(_, _, _)
InputSig(parameter_list, i, input_sig) ==
    IF i > Len(parameter_list)
    THEN [err |-> NoErr, input_sig |-> input_sig]
    ELSE LET param == parameter_list[i]
             \* param.default and not param.empty
             test == IF Truthy(param.default)
                     THEN ~Truthy(ParameterEmpty)
                     ELSE Truthy(param.default)
             param_desc == IF test THEN param.default ELSE PyNone
         IN IF param.kind # POSITIONAL_ONLY /\ param.kind # POSITIONAL_OR_KEYWORD
            THEN [err |-> ExportTypeError("exported functions only support positional parameters"),
                  input_sig |-> input_sig]
            ELSE IF param_desc = PyNone
            THEN [err |-> ExportTypeError("missing required default value annotation"),
                  input_sig |-> input_sig]
            ELSE InputSig(parameter_list, i + 1, Append(input_sig, param_desc))

\* CompiledModuleClassInfo.def_export_function
DefExportFunction(exports, name, f) ==
    IF Len(f.parameters) < 1
    THEN ExportResult(exports, ExportTypeError("expected to have a 'self' parameter"), PyNone)
    ELSE Then(InputSig(f.parameters, 2, <<>>), LAMBDA r :
            IF ~Ok(r.err)
            THEN ExportResult(exports, r.err, PyNone)
            ELSE LET info == ExportFunctionDef(name, f, r.input_sig)
                 IN [AddExport(exports, name, info) EXCEPT
                        !.ret = IF Ok(AddExport(exports, name, info).err) THEN info ELSE PyNone])

\* CompiledModuleClassInfo.def_attribute
DefAttribute(exports, key, value) ==
    IF value.cls = "PyOnlyDef"
    THEN [AddExport(exports, key, value) EXCEPT
             !.ret = IF Ok(AddExport(exports, key, value).err) THEN value ELSE PyNone]
    ELSE IF value.cls = "function"
    THEN DefExportFunction(exports, key, value)
    ELSE ExportResult(exports, ExportTypeError("cannot set arbitrary Python value"), PyNone)

\* The callers of the class info: the attribute names of a module class, and
\* the values its body assigns to them.
ExportKeys == {"run", "params"}
PyOnlyDefs == {PyOnlyDef(1), PyOnlyDef(2)}
SelfParam == Positional("self", ParameterEmpty)
Functions ==
    {Function(1, <<>>),
     Function(2, <<SelfParam>>),
     Function(3, <<SelfParam, Positional("a", Descriptor1)>>),
     Function(4, <<SelfParam, Positional("a", Descriptor1), Positional("b", Descriptor2)>>),
     Function(5, <<SelfParam, Positional("a", ParameterEmpty)>>),
     Function(6, <<SelfParam, Parameter("k", KEYWORD_ONLY, Descriptor1)>>),
     Function(7, <<SelfParam, Positional("a", IntZero)>>)}
ArbitraryValues == {IntZero, Descriptor1}

\* The record of one call on the class info.
ExportCall(op, key, value, r) ==
    [op |-> op, key |-> key, value |-> value, err |-> r.err, ret |-> r.ret,
     pre |-> all_exports]
ExportCalled(op, key, value, r) ==
    /\ all_exports' = r.exports
    /\ export_calls' = Append(export_calls, ExportCall(op, key, value, r))
    /\ UNCHANGED <<trace, node_values, meta, block, OP_HANDLERS, resolved, dispatched,
                   calls, last, first_pass>>

CallAddExport ==
    /\ Len(export_calls) < MaxExports
    /\ \E key \in ExportKeys, value \in PyOnlyDefs :
         \E r \in {AddExport(all_exports, key, value)} :
            ExportCalled("add_export", key, value, r)

CallDefAttribute ==
    /\ Len(export_calls) < MaxExports
    /\ \E key \in ExportKeys, value \in PyOnlyDefs \cup Functions \cup ArbitraryValues :
         \E r \in {DefAttribute(all_exports, key, value)} :
            ExportCalled("def_attribute", key, value, r)

CallDefExportFunction ==
    /\ Len(export_calls) < MaxExports
    /\ \E name \in ExportKeys, f \in Functions :
         \E r \in {DefExportFunction(all_exports, name, f)} :
            ExportCalled("def_export_function", name, f, r)

\* One class info, for a module whose kernels are not traced here: the
\* emitter of the initial state stays as constructed, for the empty body.
InitExports == Init /\ trace = TraceOf([i \in 1 .. MaxBody |-> "output"])
NextExports == CallAddExport \/ CallDefAttribute \/ CallDefExportFunction
SpecExports == InitExports /\ [][NextExports]_vars

\* ------------------------------------------------------ reading the history
Range(f) == {f[i] : i \in DOMAIN f}
IsPrefix(s, t) == Len(s) <= Len(t) /\ \A i \in 1 .. Len(s) : s[i] = t[i]
Suffix(s, t) == SubSeq(t, Len(s) + 1, Len(t))

BindOps == {"bind_node_proxy", "bind_node_proxies"}
EmitOps == {"emit", "emit_subgraph"}
\* What the last call added to the histories and to the block.
NewDispatched == Suffix(last.pre.dispatched, dispatched)
NewResolved == Suffix(last.pre.resolved, resolved)
NewInstrs == Suffix(last.pre.block, block)
\* The graph the last emit or emit_subgraph walked.
LastGraph == IF last.op = "emit" THEN trace.root ELSE trace.sub

\* ------------------------------------------------------------------ claims

\* C1: a bind (bind_node_proxy or bind_node_proxies) of a node that already has
\* an entry raises the double-bind error and changes nothing; right after a
\* successful bind, lookup_node_values of the node returns exactly the bound
\* values, in order, and does not call the bound signature; and a lookup of
\* any node that has an entry returns the entry without calling the signature.
C1_WriteOnceBind ==
    /\ (last.op \in BindOps /\ last.node \in DOMAIN last.pre.nv) =>
          /\ last.err.type = "AssertionError"
          /\ last.err.msg = "Cannot rebind node"
          /\ node_values = last.pre.nv
          /\ meta = last.pre.meta
    /\ (last.op \in BindOps /\ last.node \notin DOMAIN last.pre.nv) =>
          /\ Ok(last.err)
          /\ LookupNodeValues(EmitterState, last.node).values = last.values
          /\ LookupNodeValues(EmitterState, last.node).e.resolved = resolved
          /\ resolved = last.pre.resolved
    /\ (last.op = "lookup_node_values" /\ last.node \in DOMAIN last.pre.nv) =>
          /\ last.values = last.pre.nv[last.node]
          /\ resolved = last.pre.resolved

\* C1 witness: a bind of a node that an earlier bind had bound was rejected.
C1_Witness ==
    /\ Len(calls) >= 2
    /\ calls[Len(calls) - 1] \in BindOps
    /\ last.op \in BindOps
    /\ last.node \in DOMAIN last.pre.nv
    /\ last.err.type = "AssertionError"

\* C2 (as claimed): no call replaces an entry of the binding table: every node
\* that had an entry before the last call still maps to the same value list.
C2_TableWriteOnce ==
    \A n \in DOMAIN last.pre.nv :
        n \in DOMAIN node_values /\ node_values[n] = last.pre.nv[n]

\* Positions of a graph: where a node stands, and the first position that
\* satisfies a test (0 when none does).
IsCall(n) == trace.nodes[n].op = "call_function"
IsOutput(n) == trace.nodes[n].op = "output"
IsUnregistered(n) == IsCall(n) /\ trace.nodes[n].target \notin DOMAIN OP_HANDLERS
FirstIndex(g, Test(_)) ==
    IF \E i \in 1 .. Len(g) : Test(g[i])
    THEN CHOOSE i \in 1 .. Len(g) : Test(g[i]) /\ \A j \in 1 .. (i - 1) : ~Test(g[j])
    ELSE 0
\* The nodes of the instructions the last call appended.
NewInstrNodes == {NewInstrs[i].node : i \in 1 .. Len(NewInstrs)}
\* emit_subgraph got as many captured arguments as the subgraph has free variables.
ArityMatches == last.op = "emit_subgraph" => Len(last.capture) = Len(trace.freevars)

\* C3: when the graph walked by emit()/emit_subgraph() holds a call node whose
\* kind has no handler, the walk never gets past the first such node: no
\* handler is invoked for it or for any node after it, no instruction is
\* emitted for them, a normal return means an output node came first, and the
\* error raised at the node is a CodegenError that names the node's kind and
\* leaves the node without a new binding.
C3_UnregisteredFatal ==
    (last.op \in EmitOps /\ ArityMatches /\ FirstIndex(LastGraph, IsUnregistered) > 0) =>
        LET g == LastGraph
            i == FirstIndex(g, IsUnregistered)
            o == FirstIndex(g, IsOutput)
        IN /\ \A j \in i .. Len(g) :
                 g[j] \notin Range(NewDispatched) /\ g[j] \notin NewInstrNodes
           /\ Ok(last.err) => (o > 0 /\ o < i)
           /\ (o = 0 \/ o > i) =>
                 \/ /\ last.err.type = "CodegenError"
                    /\ last.err.msg = "No handler registered for op"
                    /\ last.err.kind = trace.nodes[g[i]].target
                    /\ (g[i] \in DOMAIN node_values) = (g[i] \in DOMAIN last.pre.nv)
                    /\ g[i] \in DOMAIN node_values => node_values[g[i]] = last.pre.nv[g[i]]
                    /\ \A j \in 1 .. (i - 1) : IsCall(g[j]) => g[j] \in Range(NewDispatched)
                 \/ /\ ~Ok(last.err)
                    /\ last.err.msg # "No handler registered for op"
                    /\ NewDispatched # <<>>
                    /\ \E j \in 1 .. (i - 1) : g[j] = NewDispatched[Len(NewDispatched)]

\* C3 witness: emit() stopped with the CodegenError at an unregistered node
\* that is followed by a call node with a registered handler.
C3_Witness ==
    /\ last.op = "emit"
    /\ last.err.msg = "No handler registered for op"
    /\ LET i == FirstIndex(trace.root, IsUnregistered)
       IN /\ i > 0 /\ i < Len(trace.root)
          /\ IsCall(trace.root[i + 1]) /\ ~IsUnregistered(trace.root[i + 1])

\* C4: emit_subgraph with a captured-argument list whose length differs from
\* the free-variable list raises before any side effect: the binding table,
\* the block and the histories are what they were before the call.
C4_SubgraphArity ==
    (last.op = "emit_subgraph" /\ Len(last.capture) # Len(trace.freevars)) =>
        /\ last.err.type = "AssertionError"
        /\ last.err.a = Len(trace.freevars)
        /\ last.err.b = Len(last.capture)
        /\ node_values = last.pre.nv
        /\ block = last.pre.block
        /\ dispatched = last.pre.dispatched
        /\ resolved = last.pre.resolved

\* C4 witness: a mismatched emit_subgraph on an emitter whose table has entries
\* but none yet for the captured argument.
C4_Witness ==
    /\ last.op = "emit_subgraph"
    /\ Len(last.capture) # Len(trace.freevars)
    /\ DOMAIN last.pre.nv # {}
    /\ \E i \in 1 .. Len(last.capture) : last.capture[i] \notin DOMAIN last.pre.nv

\* The values a node resolved to before the last call: its entry, or else the
\* single value of the bound signature.
ResolvedBefore(n) ==
    IF n \in DOMAIN last.pre.nv THEN last.pre.nv[n] ELSE <<ResolveByReference(n)>>

\* C5: after emit_subgraph with matching arity, the i-th free variable's node
\* maps to the values the i-th captured argument had already resolved to (no
\* handler ran for a captured argument); the subgraph's nodes were emitted
\* against that same table (the subgraph's read loads from the value of its
\* free variable); and a normal return gives the output node's arguments.
C5_SubgraphSubstitution ==
    (last.op = "emit_subgraph" /\ Len(last.capture) = Len(trace.freevars)) =>
        /\ \A i \in 1 .. Len(trace.freevars) :
              /\ trace.freevars[i] \in DOMAIN node_values
              /\ node_values[trace.freevars[i]] = ResolvedBefore(last.capture[i])
              /\ last.capture[i] \in DOMAIN node_values
              /\ node_values[last.capture[i]] = ResolvedBefore(last.capture[i])
        /\ Range(NewDispatched) \subseteq Range(trace.sub)
        /\ \A k \in 1 .. Len(NewInstrs) :
              NewInstrs[k].op = "vector.transfer_read" =>
                  /\ NewInstrs[k].node = SubRead
                  /\ NewInstrs[k].operands[1] = ResolvedBefore(last.capture[1])[1]
        /\ Ok(last.err) =>
              /\ last.ret = RetArgs(trace.nodes[SubOut].args)
              /\ NewDispatched = <<SubRead, SubWrite>>

\* C5 witness: emit_subgraph returned normally with two different captured
\* arguments that resolved to different values.
C5_Witness ==
    /\ last.op = "emit_subgraph"
    /\ Ok(last.err)
    /\ Len(last.capture) = Len(trace.freevars)
    /\ last.capture[1] # last.capture[2]
    /\ node_values[FreeVar1] # node_values[FreeVar2]
    /\ last.ret.some

\* C6: a walk stops at the first output node of its graph: no node after it is
\* dispatched, bound or given an instruction; reaching it raises nothing (an
\* error can only come from a call node that stands before it); and a walk
\* that returns normally returns the output node's argument tuple.
C6_OutputShortCircuit ==
    (last.op \in EmitOps /\ ArityMatches /\ FirstIndex(LastGraph, IsOutput) > 0) =>
        LET g == LastGraph
            o == FirstIndex(g, IsOutput)
        IN /\ \A j \in (o + 1) .. Len(g) :
                 /\ g[j] \notin Range(NewDispatched)
                 /\ g[j] \notin NewInstrNodes
                 /\ g[j] \in DOMAIN node_values => g[j] \in DOMAIN last.pre.nv
           /\ Ok(last.err) => last.graph_ret = RetArgs(trace.nodes[g[o]].args)
           /\ ~Ok(last.err) =>
                 /\ last.graph_ret = RetNone
                 /\ \E j \in 1 .. (o - 1) : IsCall(g[j])
           /\ (\A j \in 1 .. (o - 1) : ~IsCall(g[j])) =>
                 /\ Ok(last.err)
                 /\ block = last.pre.block

\* C6 witness: emit() returned at an output node that a call node follows.
C6_Witness ==
    /\ last.op = "emit"
    /\ Ok(last.err)
    /\ last.graph_ret.some
    /\ LET o == FirstIndex(trace.root, IsOutput)
       IN o > 0 /\ o < Len(trace.root) /\ IsCall(trace.root[o + 1])

\* The calls before the last one, and the calls that can append to the block.
EarlierCalls == SubSeq(calls, 1, Len(calls) - 1)
BlockCalls == SelectSeq(calls, LAMBDA c : c \in {"emit", "emit_subgraph", "finish"})
Returns == {i \in 1 .. Len(block) : block[i].op = "func.return"}

\* C7 (as claimed): finish() called before any emit(), or called again after
\* a finish(), fails with an error and appends no return instruction.
C7_FinishGuarded ==
    (last.op = "finish"
       /\ ("emit" \notin Range(EarlierCalls) \/ "finish" \in Range(EarlierCalls))) =>
        /\ ~Ok(last.err)
        /\ block = last.pre.block

\* C8: after emit() and then one finish() (with no other emission in between,
\* whether emit() returned or raised) the block ends with a return, holds
\* exactly one return, and consists of what emit() appended followed by it:
\* every instruction of a handler precedes the return.
C8_TerminatedByReturn ==
    (BlockCalls = <<"emit", "finish">> /\ last.op = "finish") =>
        /\ Len(block) >= 1
        /\ block[Len(block)].op = "func.return"
        /\ Returns = {Len(block)}
        /\ SubSeq(block, 1, Len(block) - 1) = last.pre.block
        /\ \A i \in 1 .. Len(block) : block[i].node # 0 => i < Len(block)

\* C8 witness: emit() appended handler instructions and finish() followed.
C8_Witness ==
    /\ calls = <<"emit", "finish">>
    /\ Len(block) > 1
    /\ block[1].node # 0

\* The position in the walked graph at which a failed walk stopped: the first
\* unregistered node when no handler was found, else the last dispatched node.
FailedIndex ==
    IF last.err.msg = "No handler registered for op"
    THEN FirstIndex(LastGraph, IsUnregistered)
    ELSE CHOOSE i \in 1 .. Len(LastGraph) :
            LastGraph[i] = NewDispatched[Len(NewDispatched)]
\* The handlers that append at least one instruction whenever they return.
EmittingHandlers == {"read", "write", "mma"}

\* C9 (as claimed): when emit() raises, the block holds none of the
\* instructions emitted during that emit().
C9_NoPartialOutput ==
    (last.op = "emit" /\ ~Ok(last.err)) => block = last.pre.block

\* C9 (amended): when emit() raises at the k-th node the pass stops there: no
\* node after the k-th is dispatched or given an instruction and emit_graph
\* returns nothing; but nothing is rolled back: the block keeps what it held
\* before, followed by the instructions of the nodes before the k-th (each
\* read, write or mma node before it has its instructions in the block) and
\* by whatever the failing handler had appended before it raised.
C9_FatalNoRollback ==
    (last.op = "emit" /\ ~Ok(last.err)) =>
        LET g == trace.root
            k == FailedIndex
        IN /\ IsPrefix(last.pre.block, block)
           /\ last.graph_ret = RetNone
           /\ \A j \in (k + 1) .. Len(g) :
                 g[j] \notin Range(NewDispatched) /\ g[j] \notin NewInstrNodes
           /\ \A j \in 1 .. (k - 1) :
                 (IsCall(g[j]) /\ OP_HANDLERS[trace.nodes[g[j]].target] \in EmittingHandlers)
                    => g[j] \in NewInstrNodes
           /\ NewInstrNodes \subseteq {g[j] : j \in 1 .. k}

\* C9 witness: emit() raised a CodegenError in the write handler of the second
\* body node, after the first body node and the write handler itself had
\* appended instructions.
C9_Witness ==
    /\ last.op = "emit"
    /\ last.err.type = "CodegenError"
    /\ last.err.msg = "Mismatched slice assignment"
    /\ FailedIndex = Len(trace.root)
    /\ trace.root[FailedIndex - 1] \in NewInstrNodes
    /\ trace.root[FailedIndex] \in NewInstrNodes

\* The handler registered for a call node, and whether the node's argument
\* count is not the one that handler unpacks.
HandlerOf(n) == OP_HANDLERS[trace.nodes[n].target]
BadArity(n) ==
    /\ IsCall(n) /\ ~IsUnregistered(n)
    /\ \/ HandlerOf(n) = "read" /\ Len(trace.nodes[n].args) # 2
       \/ HandlerOf(n) = "write" /\ Len(trace.nodes[n].args) # 3
       \/ HandlerOf(n) = "mma" /\ Len(trace.nodes[n].args) # 3
\* The emitter state in which the last walk started.
WalkStart ==
    IF last.op = "emit_subgraph"
    THEN Substitute(last.pre, trace.freevars, last.capture, 1)
    ELSE last.pre

\* C10: a read node without exactly 2 arguments, or a write or mma node without
\* exactly 3, makes its handler raise ValidationError "Malformed arguments"
\* before anything else: the walk stops at that node, no instruction carries
\* the node, and the table, the node attributes and the block are exactly
\* what the walk of the nodes before it left.
C10_ArityValidation ==
    (last.op \in EmitOps /\ \E n \in Range(NewDispatched) : BadArity(n)) =>
        LET g == LastGraph
            n == NewDispatched[Len(NewDispatched)]
            k == CHOOSE i \in 1 .. Len(g) : g[i] = n
            before == EmitGraph(WalkStart, SubSeq(g, 1, k - 1))
        IN /\ BadArity(n)
           /\ \A i \in 1 .. (Len(NewDispatched) - 1) : ~BadArity(NewDispatched[i])
           /\ last.err.type = "ValidationError"
           /\ last.err.msg = "Malformed arguments"
           /\ n \notin NewInstrNodes
           /\ node_values = before.e.nv
           /\ meta = before.e.meta
           /\ block = before.e.block
           /\ resolved = before.e.resolved

\* C10 witness: the walk stopped with a ValidationError at a malformed second
\* body node after the first body node had been lowered.
C10_Witness ==
    /\ last.op = "emit"
    /\ last.err.type = "ValidationError"
    /\ Len(NewDispatched) = 2
    /\ BadArity(NewDispatched[2])
    /\ NewInstrs # <<>>

\* The number of arguments a handler unpacks from node.args.
Unpacked(h) == CASE h = "read" -> 2 [] h = "write" -> 3 [] h = "mma" -> 3 [] OTHER -> 1
TypedErrors == {"ValidationError", "CodegenError"}

\* C11 (as claimed): a ValidationError or CodegenError that leaves emit()
\* names the node at which the walk failed and that node's operation kind,
\* and an arity or rank failure also gives the expected and the actual number.
C11_ErrorsCarryContext ==
    (last.op = "emit" /\ last.err.type \in TypedErrors) =>
        LET n == trace.root[FailedIndex]
        IN /\ last.err.node = n
           /\ last.err.kind = trace.nodes[n].target
           /\ last.err.msg = "Malformed arguments" =>
                 /\ last.err.a = Unpacked(HandlerOf(n))
                 /\ last.err.b = Len(trace.nodes[n].args)
           /\ last.err.msg = "Mismatched slice assignment" =>
                 last.err.a # last.err.b

\* The instructions the last walk appended for node n with operation op, as
\* positions of the block.
InstrsOf(n, op) ==
    {k \in (Len(last.pre.block) + 1) .. Len(block) : block[k].node = n /\ block[k].op = op}
\* The value the instruction at position k of the block defines.
ResultAt(k) == OpValue(k, block[k].ty)
\* A constant of the block with the given type and value.
IsConstant(v, ty, val) ==
    /\ v.src = "op" /\ v.id \in 1 .. Len(block)
    /\ block[v.id].op = "arith.constant"
    /\ block[v.id].ty = ty
    /\ block[v.id].value = TypedAttr(ty.elem, val)
\* The nodes the last walk handed to the handler h with the argument count
\* the handler unpacks.
Lowered(h) ==
    {n \in Range(NewDispatched) : HandlerOf(n) = h /\ Len(trace.nodes[n].args) = Unpacked(h)}
\* The table entry of the k-th argument of node n, and whether it is one
\* buffer of the given rank.
ArgValues(n, k) == node_values[trace.nodes[n].args[k]]
IsBuffer(vs, rank) == Len(vs) = 1 /\ vs[1].ty.kind = "memref" /\ vs[1].ty.rank = rank

\* C12: a read node whose source is a rank-2 buffer gets exactly one
\* vector.transfer_read: of vector type 16x16 of the buffer's element type,
\* reading the buffer at two zero index constants, with the minor-identity
\* map 2 -> 2 and a pad constant that is the zero of the element type; and a
\* read node that had no entry before the walk is then bound to exactly that
\* one result (the walk does not fail at it).
C12_ReadLowering ==
    (last.op \in EmitOps /\ ArityMatches) =>
        \A n \in Lowered("read") :
            IsBuffer(ArgValues(n, 1), 2) =>
                LET buf == ArgValues(n, 1)[1]
                    elem == buf.ty.elem
                IN /\ Cardinality(InstrsOf(n, "vector.transfer_read")) = 1
                   /\ \A k \in InstrsOf(n, "vector.transfer_read") :
                         /\ block[k].shape = <<16, 16>>
                         /\ block[k].ty = [kind |-> "vector", rank |-> 2, elem |-> elem]
                         /\ block[k].map = MinorIdentity(2, 2)
                         /\ Len(block[k].operands) = 4
                         /\ block[k].operands[1] = buf
                         /\ IsConstant(block[k].operands[2], IndexType, 0)
                         /\ IsConstant(block[k].operands[3], IndexType, 0)
                         /\ IsConstant(block[k].operands[4], Scalar(elem), 0)
                         /\ n \notin DOMAIN WalkStart.nv =>
                               /\ node_values[n] = <<ResultAt(k)>>
                               /\ (~Ok(last.err) => n # LastGraph[FailedIndex])

\* C12 witness: emit() lowered a read of a rank-2 buffer of i32 elements and
\* bound the node to the load.
C12_Witness ==
    /\ last.op = "emit"
    /\ \E n \in Lowered("read") :
          /\ IsBuffer(ArgValues(n, 1), 2)
          /\ ArgValues(n, 1)[1].ty.elem = I32
          /\ n \in DOMAIN node_values
          /\ node_values[n][1].src = "op"
          /\ block[node_values[n][1].id].op = "vector.transfer_read"

\* The index constants the last walk emitted for node n: its start offsets.
StartOffsets(n) ==
    {k \in InstrsOf(n, "arith.constant") : block[k].ty = IndexType}
IsMemRef(vs) == Len(vs) = 1 /\ vs[1].ty.kind = "memref"

\* C13: a write node whose destination buffer has a rank other than the
\* number of start offsets the handler computed makes the walk fail at that
\* node with a CodegenError "Mismatched slice assignment" that gives the
\* destination rank and the number of offsets, and the node gets no
\* vector.transfer_write, no vector.broadcast and no conversion of its
\* operand; when the two numbers agree the walk does not fail that way.
C13_WriteRankCheck ==
    (last.op \in EmitOps /\ ArityMatches) =>
        \A n \in Lowered("write") :
            IsMemRef(ArgValues(n, 2)) =>
                LET dest_rank == ArgValues(n, 2)[1].ty.rank
                    mismatch == /\ ~Ok(last.err)
                                /\ LastGraph[FailedIndex] = n
                                /\ last.err.msg = "Mismatched slice assignment"
                IN /\ (dest_rank # Cardinality(StartOffsets(n))) =>
                         /\ mismatch
                         /\ last.err.type = "CodegenError"
                         /\ last.err.a = dest_rank
                         /\ last.err.b = Cardinality(StartOffsets(n))
                         /\ InstrsOf(n, "vector.transfer_write") = {}
                         /\ InstrsOf(n, "vector.broadcast") = {}
                         /\ InstrsOf(n, "vector.splat") = {}
                   /\ (dest_rank = Cardinality(StartOffsets(n))) => ~mismatch

\* C13 witness: a walk failed at a write into a rank-3 buffer after the
\* handler had computed two start offsets.
C13_Witness ==
    /\ last.op \in EmitOps
    /\ last.err.msg = "Mismatched slice assignment"
    /\ \E n \in Lowered("write") :
          /\ IsBuffer(ArgValues(n, 2), 3)
          /\ Cardinality(StartOffsets(n)) = 2

\* C14 (as claimed): a write of a rank-0 vector into a rank-2 buffer does not
\* fail and gets one vector.broadcast to shape (1,1) followed by exactly one
\* vector.transfer_write of the broadcast value whose map is the
\* minor-identity map 2 -> 2.
C14_RankZeroBroadcast ==
    (last.op \in EmitOps /\ ArityMatches) =>
        \A n \in Lowered("write") :
            (/\ IsBuffer(ArgValues(n, 2), 2)
             /\ trace.nodes[n].args[1] \in DOMAIN node_values
             /\ Len(ArgValues(n, 1)) = 1
             /\ ArgValues(n, 1)[1].ty = Vector(0)) =>
                /\ (~Ok(last.err) => LastGraph[FailedIndex] # n)
                /\ Cardinality(InstrsOf(n, "vector.broadcast")) = 1
                /\ Cardinality(InstrsOf(n, "vector.transfer_write")) = 1
                /\ \A b \in InstrsOf(n, "vector.broadcast"),
                      w \in InstrsOf(n, "vector.transfer_write") :
                        /\ b < w
                        /\ block[b].shape = <<1, 1>>
                        /\ block[b].operands = <<ArgValues(n, 1)[1]>>
                        /\ block[w].operands[1] = ResultAt(b)
                        /\ block[w].map = MinorIdentity(2, 2)

\* The accumulator of a contraction as the handler passed it: the operand
\* itself when it is a vector, else the one conversion of it.
IsCastOf(v, operand) ==
    IF operand.ty.kind = "vector"
    THEN v = operand
    ELSE /\ v.src = "op" /\ v.id \in 1 .. Len(block)
         /\ block[v.id].op = "vector.splat"
         /\ block[v.id].operands = <<operand>>

\* C15: an mma node whose three operands each resolve to one value gets
\* exactly one vector.contract: with iterator types parallel, parallel,
\* reduction, index maps (d0,d2), (d2,d1), (d0,d1), the three operands as
\* vectors in the order lhs, rhs, acc, and the accumulator's type as result
\* type whatever the types of lhs and rhs; and an mma node that had no entry
\* before the walk is then bound to exactly that one result.
C15_ContractionFixity ==
    (last.op \in EmitOps /\ ArityMatches) =>
        \A n \in Lowered("mma") :
            (\A i \in 1 .. 3 : /\ trace.nodes[n].args[i] \in DOMAIN node_values
                               /\ Len(ArgValues(n, i)) = 1) =>
                /\ Cardinality(InstrsOf(n, "vector.contract")) = 1
                /\ \A k \in InstrsOf(n, "vector.contract") :
                      /\ block[k].roles = <<"parallel", "parallel", "reduction">>
                      /\ block[k].map = <<<<0, 2>>, <<2, 1>>, <<0, 1>>>>
                      /\ Len(block[k].operands) = 3
                      /\ \A i \in 1 .. 3 :
                            IsCastOf(block[k].operands[i], ArgValues(n, i)[1])
                      /\ block[k].ty = block[k].operands[3].ty
                      /\ n \notin DOMAIN WalkStart.nv =>
                            /\ node_values[n] = <<ResultAt(k)>>
                            /\ (~Ok(last.err) => n # LastGraph[FailedIndex])

\* C15 witness: emit() lowered an mma whose lhs is not of the accumulator's
\* type and bound the node to the contraction.
C15_Witness ==
    /\ last.op = "emit"
    /\ \E n \in Lowered("mma") :
          /\ InstrsOf(n, "vector.contract") # {}
          /\ \A k \in InstrsOf(n, "vector.contract") :
                /\ block[k].operands[1].ty # block[k].operands[3].ty
                /\ node_values[n] = <<ResultAt(k)>>

\* C16 (as claimed): a walk that reaches an operator.call node fails at that
\* node with a typed error, and the process is never suspended in a debugger.
C16_CallUnimplemented ==
    (last.op \in EmitOps /\ ArityMatches) =>
        \A n \in Range(NewDispatched) :
            HandlerOf(n) = "call" =>
                /\ ~Ok(last.err)
                /\ LastGraph[FailedIndex] = n
                /\ last.err.type \in TypedErrors
                /\ ~last.debugger

\* C17 (as claimed): no call changes the trace or the metadata of a node.
C17_GraphReadOnly == [][trace' = trace /\ meta' = meta]_vars

\* C17 (amended): no call changes the nodes' kind, target or arguments, and
\* the metadata changes in one way only: a bind_node_proxy or
\* bind_node_proxies that is given attrs and succeeds sets the "unsigned" entry
\* of the node it binds to attrs.unsigned; every other call, a bind without
\* attrs and a rejected bind leave the metadata of every node as it was.
C17_OnlyBindStoresUnsigned ==
    [][/\ trace' = trace
       /\ IF last'.op \in BindOps /\ last'.attrs.given /\ Ok(last'.err)
          THEN meta' = Put(meta, last'.node, last'.attrs.unsigned)
          ELSE meta' = meta]_vars

\* C17 witness: a bind with attrs succeeded and the node's metadata changed.
C17_Witness ==
    /\ last.op \in BindOps
    /\ last.attrs.given
    /\ Ok(last.err)
    /\ meta # last.pre.meta
    /\ last.node \in DOMAIN meta

ReturnedNormally ==
    {n \in Range(NewDispatched) : Ok(last.err) \/ n # LastGraph[FailedIndex]}
\* The instructions whose result a handler binds its node to.
ResultOps == {"vector.transfer_read", "vector.contract"}

\* C19 (as claimed): every node whose handler returned normally was bound by
\* the walk.
C19_HandlerBindsOnce ==
    (last.op \in EmitOps /\ ArityMatches) =>
        \A n \in ReturnedNormally :
            n \in DOMAIN node_values /\ n \notin DOMAIN WalkStart.nv

\* C19 (amended): a read or mma node whose handler returned normally had no
\* entry before the walk and is bound to one value, the result of the one
\* load or contraction emitted for it; a write node whose handler returned
\* normally was not bound by its handler: an entry it has gained is the
\* fallback resolution made for a later node that uses it.
C19_ResultHandlersBind ==
    (last.op \in EmitOps /\ ArityMatches) =>
        \A n \in ReturnedNormally :
            /\ HandlerOf(n) \in {"read", "mma"} =>
                  /\ n \notin DOMAIN WalkStart.nv
                  /\ n \in DOMAIN node_values
                  /\ \E k \in (Len(last.pre.block) + 1) .. Len(block) :
                        /\ block[k].node = n
                        /\ block[k].op \in ResultOps
                        /\ node_values[n] = <<ResultAt(k)>>
                  /\ Cardinality({k \in (Len(last.pre.block) + 1) .. Len(block) :
                                     block[k].node = n /\ block[k].op \in ResultOps}) = 1
            /\ (HandlerOf(n) = "write" /\ n \in DOMAIN node_values
                                        /\ n \notin DOMAIN WalkStart.nv) =>
                  node_values[n] = <<ResolveByReference(n)>>

\* C19 witness: a walk returned normally after a read and a write handler.
C19_Witness ==
    /\ last.op \in EmitOps
    /\ Ok(last.err)
    /\ \E r \in ReturnedNormally, w \in ReturnedNormally :
          /\ HandlerOf(r) = "read" /\ HandlerOf(w) = "write"
          /\ r \in DOMAIN node_values /\ w \notin DOMAIN node_values

\* The emitter state the last walk had reached after the first k nodes of
\* its graph.
WalkedTo(k) == EmitGraph(WalkStart, SubSeq(LastGraph, 1, k)).e
PositionOf(n) == CHOOSE k \in 1 .. Len(LastGraph) : LastGraph[k] = n

\* C20: the write handler of a node that is lowered normally adds no entry
\* for the node (the node has an entry afterwards only if it had that entry
\* before), changes no entry, and the entries it adds are those of its
\* register and memory operands that had none, each the signature's value.
C20_WriteBindsNothing ==
    (last.op \in EmitOps /\ ArityMatches) =>
        \A n \in ReturnedNormally :
            HandlerOf(n) = "write" =>
                LET before == WalkedTo(PositionOf(n) - 1).nv
                    after == WalkedTo(PositionOf(n)).nv
                    operands == {trace.nodes[n].args[1], trace.nodes[n].args[2]}
                IN /\ (n \in DOMAIN after) = (n \in DOMAIN before)
                   /\ \A x \in DOMAIN before :
                         x \in DOMAIN after /\ after[x] = before[x]
                   /\ (DOMAIN after) \ (DOMAIN before) \subseteq operands
                   /\ \A x \in (DOMAIN after) \ (DOMAIN before) :
                         after[x] = <<ResolveByReference(x)>>

\* C20 witness: emit() lowered a write whose buffer had no entry; afterwards
\* the buffer has one and the write node has none.
C20_Witness ==
    /\ last.op = "emit"
    /\ \E n \in ReturnedNormally :
          /\ HandlerOf(n) = "write"
          /\ InstrsOf(n, "vector.transfer_write") # {}
          /\ n \notin DOMAIN node_values
          /\ trace.nodes[n].args[2] \in (DOMAIN node_values) \ (DOMAIN last.pre.nv)

\* The call nodes of a graph that stand before its first output node, in the
\* graph's order.
CallsBeforeOutput(g) ==
    LET o == FirstIndex(g, IsOutput)
    IN SelectSeq(SubSeq(g, 1, IF o > 0 THEN o - 1 ELSE Len(g)), IsCall)

\* C21: the handlers a walk invokes are those of the graph's call nodes that
\* stand before the first output node, in the graph's order and once each: all
\* of them when the walk returns, and when it raises those up to the node that
\* failed (the last one invoked, or the next one when that one's kind has no
\* handler).  A node that is neither a call nor an output gets no handler and
\* no instruction, and walking past it leaves the emitter as it was.
C21_DeclaredOrder ==
    (last.op \in EmitOps /\ ArityMatches) =>
        LET g == LastGraph
            expected == CallsBeforeOutput(g)
            done == Len(NewDispatched)
        IN /\ IsPrefix(NewDispatched, expected)
           /\ Ok(last.err) => NewDispatched = expected
           /\ (~Ok(last.err) /\ last.err.msg = "No handler registered for op") =>
                 done < Len(expected) /\ IsUnregistered(expected[done + 1])
           /\ (~Ok(last.err) /\ last.err.msg # "No handler registered for op") =>
                 done > 0
           /\ \A k \in 1 .. Len(g) :
                 (~IsCall(g[k]) /\ ~IsOutput(g[k])) =>
                     /\ g[k] \notin Range(NewDispatched)
                     /\ g[k] \notin NewInstrNodes
                     /\ EmitGraph(WalkStart, SubSeq(g, 1, k)).e
                           = EmitGraph(WalkStart, SubSeq(g, 1, k - 1)).e

\* C21 witness: emit() walked a placeholder and then two call nodes, whose
\* handlers ran in that order.
C21_Witness ==
    /\ last.op = "emit"
    /\ Ok(last.err)
    /\ ~IsCall(trace.root[1])
    /\ Len(NewDispatched) = 2
    /\ NewDispatched = <<trace.root[2], trace.root[3]>>

\* C22: a lookup of a node that has no entry asks the signature once, returns
\* the list of that one value and stores it as the node's entry; a lookup of a
\* node that has an entry returns the entry and asks nothing.  So no emitter
\* asks the signature twice about one node, and every node it asked about
\* still has the answer as its entry.
C22_FallbackCached ==
    /\ (last.op = "lookup_node_values" /\ last.node \notin DOMAIN last.pre.nv) =>
          /\ Len(last.values) = 1
          /\ last.values = <<ResolveByReference(last.node)>>
          /\ node_values = Put(last.pre.nv, last.node, last.values)
          /\ resolved = Append(last.pre.resolved, last.node)
    /\ (last.op = "lookup_node_values" /\ last.node \in DOMAIN last.pre.nv) =>
          /\ last.values = last.pre.nv[last.node]
          /\ node_values = last.pre.nv
          /\ resolved = last.pre.resolved
    /\ \A i, j \in 1 .. Len(resolved) : resolved[i] = resolved[j] => i = j
    /\ \A n \in Range(resolved) :
          n \in DOMAIN node_values /\ node_values[n] = <<ResolveByReference(n)>>

\* C22 witness: a second lookup of a node whose first lookup asked the
\* signature returned the same one value.
C22_Witness ==
    /\ last.op = "lookup_node_values"
    /\ last.node \in Range(last.pre.resolved)
    /\ last.values = <<ResolveByReference(last.node)>>
    /\ resolved = <<last.node>>

\* The start offsets of the vectorized load at position k of the block (the
\* operands between the source and the pad value) and of the vectorized store
\* at position k (the operands after the vector and the destination).
LoadOffsets(k) == SubSeq(block[k].operands, 2, Len(block[k].operands) - 1)
StoreOffsets(k) == SubSeq(block[k].operands, 3, Len(block[k].operands))

\* C23 (as claimed): the vectorized load of a read node has one start offset
\* per dimension of its source buffer, whatever the buffer's rank, and every
\* start offset of a load or of a store is the index constant zero.
C23_OffsetsPerDimension ==
    (last.op \in EmitOps /\ ArityMatches) =>
        /\ \A n \in Lowered("read") :
              \A k \in InstrsOf(n, "vector.transfer_read") :
                 /\ Len(LoadOffsets(k)) = block[k].operands[1].ty.rank
                 /\ \A i \in 1 .. Len(LoadOffsets(k)) :
                       IsConstant(LoadOffsets(k)[i], IndexType, 0)
        /\ \A n \in Lowered("write") :
              \A k \in InstrsOf(n, "vector.transfer_write") :
                 \A i \in 1 .. Len(StoreOffsets(k)) :
                    IsConstant(StoreOffsets(k)[i], IndexType, 0)

\* C24: loading the attributes of a value that is not a node, or of a node
\* that has no stored flag, gives signed; after a bind with attributes
\* succeeded the node's flag is stored and loads as the one given, and the
\* flags of the other nodes load as before; a bind without attributes leaves
\* every stored flag as it was.
C24_SignednessRoundTrip ==
    /\ NodeAttrsLoad(meta, Lit) = FALSE
    /\ \A n \in Nodes : n \notin DOMAIN meta => NodeAttrsLoad(meta, n) = FALSE
    /\ (last.op \in BindOps /\ Ok(last.err) /\ last.attrs.given) =>
          /\ last.node \in DOMAIN meta
          /\ NodeAttrsLoad(meta, last.node) = last.attrs.unsigned
          /\ \A n \in Nodes \ {last.node} :
                /\ n \in DOMAIN meta <=> n \in DOMAIN last.pre.meta
                /\ NodeAttrsLoad(meta, n) = NodeAttrsLoad(last.pre.meta, n)
    /\ (last.op \in BindOps /\ ~last.attrs.given) => meta = last.pre.meta

\* C24 witness: bind_node_proxies with NodeAttrs(unsigned=False) succeeded on
\* one node after another node had been bound as unsigned, and each of the
\* two loads as it was bound.
C24_Witness ==
    /\ last.op = "bind_node_proxies"
    /\ Ok(last.err)
    /\ last.attrs = Attrs(FALSE)
    /\ NodeAttrsLoad(meta, last.node) = FALSE
    /\ \E n \in Nodes \ {last.node} : NodeAttrsLoad(meta, n) = TRUE

\* C26: once a lookup has put the signature's value into the entry of a node
\* that was not bound, the entry stays: a bind of the node by the caller
\* raises the double-bind error and changes nothing, a walk that reaches the
\* node with a handler that binds its result fails there with the double-bind
\* error after the result's instruction was appended, and the entry is still
\* the signature's value.
C26_FallbackOccupies ==
    /\ (last.op \in BindOps /\ last.node \in Range(last.pre.resolved)) =>
          /\ last.err = Rebind(last.node)
          /\ node_values = last.pre.nv
    /\ (last.op \in EmitOps /\ ArityMatches) =>
          \A n \in Range(last.pre.resolved) \cap Range(NewDispatched) :
             (\E op \in ResultOps : InstrsOf(n, op) # {}) =>
                 /\ last.err = Rebind(n)
                 /\ n = NewDispatched[Len(NewDispatched)]
                 /\ block[Len(block)].node = n /\ block[Len(block)].op \in ResultOps
    /\ \A n \in Range(last.pre.resolved) :
          n \in DOMAIN node_values /\ node_values[n] = <<ResolveByReference(n)>>

\* C26 witness: the caller looked a node up before emit(), and the walk then
\* failed at that node's read handler with the double-bind error.
C26_Witness ==
    /\ last.op = "emit"
    /\ \E n \in Range(last.pre.resolved) :
          /\ last.err = Rebind(n)
          /\ InstrsOf(n, "vector.transfer_read") # {}
          /\ node_values[n] = <<ResolveByReference(n)>>

\* A call node whose handler binds the node to its result.
IsBinder(n) == IsCall(n) /\ ~IsUnregistered(n) /\ HandlerOf(n) \in {"read", "mma"}
\* The position of the first such node of the graph, or 0.
FirstBinder(g) == FirstIndex(g, IsBinder)
\* The position of the first such node that stands before the graph's first
\* output node, or 0.
FirstReachedBinder(g) ==
    LET o == FirstIndex(g, IsOutput)
        k == FirstBinder(g)
    IN IF o > 0 /\ o < k THEN 0 ELSE k
\* An earlier walk of this emitter ran the handler of n and bound n to the
\* result of an instruction it emitted for n.
BoundByEarlierWalk(n) ==
    /\ n \in Range(last.pre.dispatched)
    /\ n \in DOMAIN last.pre.nv
    /\ Len(last.pre.nv[n]) = 1
    /\ last.pre.nv[n][1].src = "op"
    /\ last.pre.block[last.pre.nv[n][1].id].node = n
\* The last walk failed with the double-bind error at node n, right after it
\* appended the instruction whose result the handler of n binds.
RebindAfterEmitting(n) ==
    /\ last.err = Rebind(n)
    /\ NewDispatched # <<>> /\ n = NewDispatched[Len(NewDispatched)]
    /\ Len(block) > Len(last.pre.block)
    /\ block[Len(block)].node = n
    /\ block[Len(block)].op \in ResultOps
\* An earlier walk of the graph on this emitter returned normally: the first
\* emit() did, or the block holds the store of the subgraph's last call node.
EarlierWalkReturned ==
    IF last.op = "emit"
    THEN /\ Len(calls) >= 2
         /\ first_pass.set /\ ~first_pass.rebuilt /\ Ok(first_pass.err)
    ELSE \E i \in 1 .. Len(last.pre.block) :
            /\ last.pre.block[i].node = SubWrite
            /\ last.pre.block[i].op = "vector.transfer_write"

\* C27 (as claimed): when a walk of a graph that holds a read or mma node has
\* returned normally, a later emit() or emit_subgraph of that graph on the
\* same emitter raises the double-bind error at the first read or mma node
\* of the graph, after appending that node's instructions again.
C27_EmitOnce ==
    (/\ last.op \in EmitOps
     /\ EarlierWalkReturned
     /\ FirstBinder(LastGraph) > 0) =>
        RebindAfterEmitting(LastGraph[FirstBinder(LastGraph)])

\* C27 (amended): when an earlier walk has bound the first read or mma node
\* that stands before the graph's first output node, a walk of the graph on
\* the same emitter fails at that node or before it; emit() fails at that
\* node with the double-bind error after appending its instructions again,
\* and so does every emit_subgraph that appends the node's result
\* instruction again.
C27_SecondEmitFails ==
    (last.op \in EmitOps /\ ArityMatches) =>
        LET g == LastGraph
            k == FirstReachedBinder(g)
        IN (k > 0 /\ BoundByEarlierWalk(g[k])) =>
              /\ ~Ok(last.err)
              /\ FailedIndex <= k
              /\ (last.op = "emit" \/ \E op \in ResultOps : InstrsOf(g[k], op) # {}) =>
                    RebindAfterEmitting(g[k])

\* C27 witness: emit() returned normally, and the second emit() failed with
\* the double-bind error at the first read node, for which the block now
\* holds two loads.
C27_Witness ==
    /\ calls = <<"emit", "emit">>
    /\ first_pass.set /\ Ok(first_pass.err)
    /\ LET k == FirstReachedBinder(trace.root)
       IN /\ k > 0
          /\ RebindAfterEmitting(trace.root[k])
          /\ \E i \in 1 .. Len(last.pre.block) :
                /\ last.pre.block[i].node = trace.root[k]
                /\ last.pre.block[i].op = block[Len(block)].op

\* The node had the empty list as its entry before the last call.
BoundEmpty(n) == n \in DOMAIN last.pre.nv /\ last.pre.nv[n] = <<>>

\* C28: a node whose entry is the empty list is bound: a lookup of it
\* returns the empty list, asks the signature nothing and changes nothing; a
\* bind of it by the caller raises the double-bind error and changes
\* nothing; a walk that reaches the bind of its handler fails there with the
\* double-bind error; and the entry of a node the caller bound stays empty.
C28_EmptyListBound ==
    /\ (last.op = "lookup_node_values" /\ BoundEmpty(last.node)) =>
          /\ last.values = <<>>
          /\ resolved = last.pre.resolved
          /\ node_values = last.pre.nv
    /\ (last.op \in BindOps /\ BoundEmpty(last.node)) =>
          /\ last.err = Rebind(last.node)
          /\ node_values = last.pre.nv
          /\ meta = last.pre.meta
    /\ (last.op \in EmitOps /\ ArityMatches) =>
          \A n \in Range(NewDispatched) :
             (BoundEmpty(n) /\ \E op \in ResultOps : InstrsOf(n, op) # {}) =>
                 last.err = Rebind(n)
    /\ \A n \in DriverNodes :
          BoundEmpty(n) => n \in DOMAIN node_values /\ node_values[n] = <<>>

\* C28 witness: the caller bound a node to the empty list and then looked it
\* up; the lookup returned the empty list and the signature was not asked.
C28_Witness ==
    /\ calls = <<"bind_node_proxies", "lookup_node_values">>
    /\ BoundEmpty(last.node)
    /\ last.values = <<>>
    /\ resolved = <<>>

\* The instruction a handler that returns normally has appended for its node.
SignatureOp(h) ==
    CASE h = "read" -> "vector.transfer_read"
      [] h = "write" -> "vector.transfer_write"
      [] h = "mma" -> "vector.contract"
      [] OTHER -> "none"
\* Whether every dispatch of the last walk went to the handler the registry
\* holds now for the node's kind.
DispatchFollowsRegistry ==
    (last.op = "emit") =>
        /\ (last.err.msg = "No handler registered for op") =>
               last.err.kind \notin DOMAIN OP_HANDLERS
        /\ \A n \in Range(NewDispatched) :
              /\ trace.nodes[n].target \in DOMAIN OP_HANDLERS
              /\ LET h == OP_HANDLERS[trace.nodes[n].target]
                     arity == Len(trace.nodes[n].args)
                 IN /\ (h \in EmittingHandlers /\ arity # Unpacked(h)) =>
                          /\ last.err = MalformedArguments
                          /\ n = NewDispatched[Len(NewDispatched)]
                          /\ n \notin NewInstrNodes
                    /\ (h \in EmittingHandlers /\ arity = Unpacked(h)) =>
                          /\ (n = NewDispatched[Len(NewDispatched)]) =>
                                last.err # MalformedArguments
                          /\ (Ok(last.err) \/ n # NewDispatched[Len(NewDispatched)]) =>
                                InstrsOf(n, SignatureOp(h)) # {}
                    /\ (h = "call") => last.debugger

\* What one step does to the registry: a registration stores the handler
\* under the kind and touches nothing else, and no other step changes it.
RegistryStep ==
    /\ (last'.op = "handle_op") =>
          /\ Ok(last'.err)
          /\ OP_HANDLERS' = HandleOp(OP_HANDLERS, last'.kind, last'.handler)
          /\ OP_HANDLERS'[last'.kind] = last'.handler
          /\ \A k \in DOMAIN OP_HANDLERS \ {last'.kind} :
                OP_HANDLERS'[k] = OP_HANDLERS[k]
          /\ UNCHANGED <<node_values, meta, block, resolved, dispatched>>
    /\ (last'.op # "handle_op") => OP_HANDLERS' = OP_HANDLERS
    /\ DispatchFollowsRegistry'

\* C29: there is one registry for all emitters.  handle_op(kind)(f) never
\* fails and makes f the handler of the kind, replacing the one the kind had
\* and leaving the other kinds and every emitter as they are; no other step
\* (a method of an emitter, the construction of another emitter) changes the
\* registry; and every walk, of an emitter built before or after a
\* registration, dispatches each node to the handler the registry holds at
\* that time.
C29_SharedRegistry == [][RegistryStep]_vars

\* C29 witness: after the write kind's handler was replaced by the read
\* handler, a second emitter was built, and its emit() handed a write node
\* to the read handler.
C29_Witness ==
    /\ first_pass.rebuilt
    /\ last.op = "emit"
    /\ OP_HANDLERS[KindWrite] = "read"
    /\ InitialHandlers[KindWrite] = "write"
    /\ \E n \in Range(NewDispatched) :
          /\ trace.nodes[n].target = KindWrite
          /\ InstrsOf(n, "vector.transfer_read") # {}

\* The last call made on the class info.
LastExport == export_calls[Len(export_calls)]
\* The parameters of a function after the first one.
RestOf(f) == SubSeq(f.parameters, 2, Len(f.parameters))
IsPositional(param) == param.kind \in {POSITIONAL_ONLY, POSITIONAL_OR_KEYWORD}
\* A leading self and then only positional parameters that carry a default.
WellFormed(f) ==
    /\ Len(f.parameters) >= 1
    /\ f.parameters[1].name = "self"
    /\ \A i \in 1 .. Len(RestOf(f)) :
          IsPositional(RestOf(f)[i]) /\ RestOf(f)[i].default # ParameterEmpty
\* No parameter at all, or after the first one a parameter that is not
\* positional or carries no default.
Malformed(f) ==
    \/ Len(f.parameters) = 0
    \/ \E i \in 1 .. Len(RestOf(f)) :
          ~IsPositional(RestOf(f)[i]) \/ RestOf(f)[i].default = ParameterEmpty

\* C25 (as claimed): def_export_function under a name that is not exported
\* yet, for a function with a leading self whose other parameters are
\* positional and carry defaults, returns normally and adds exactly one
\* export, the ExportFunctionDef of the name and the function whose signature
\* is the list of the defaults in order; for a function with no parameters,
\* a parameter that is not positional or a parameter without a default it
\* raises TypeError and adds nothing.
C25_ExportFunctionSignature ==
    (/\ export_calls # <<>>
     /\ LastExport.op = "def_export_function"
     /\ LastExport.key \notin DOMAIN LastExport.pre) =>
        LET f == LastExport.value
            info == ExportFunctionDef(LastExport.key, f,
                                      [i \in 1 .. Len(RestOf(f)) |-> RestOf(f)[i].default])
        IN /\ WellFormed(f) =>
                 /\ Ok(LastExport.err)
                 /\ all_exports = Put(LastExport.pre, LastExport.key, info)
                 /\ LastExport.ret = info
           /\ Malformed(f) =>
                 /\ LastExport.err.type = "TypeError"
                 /\ all_exports = LastExport.pre

\* The exports as the i-th call on the class info left them.
ExportsAfter(i) ==
    IF i < Len(export_calls) THEN export_calls[i + 1].pre ELSE all_exports
\* The value a call that returned normally has exported under its key.
Exported(c) == IF c.op = "add_export" THEN c.value ELSE c.ret
\* The calls that returned normally for the key, as positions of the history.
ExportsOf(key) ==
    {i \in 1 .. Len(export_calls) : export_calls[i].key = key /\ Ok(export_calls[i].err)}

\* C30: a key is exported at most once.  Every call on the class info for a
\* key that is already exported raises TypeError and leaves the exports as
\* they were, so the exported keys are those of the calls that returned
\* normally, one call per key, and each key maps to the value that call
\* exported; def_attribute with a value that is neither a PyOnlyDef nor a
\* plain function raises TypeError and leaves the exports as they were.
C30_ExportOnce ==
    /\ \A i \in 1 .. Len(export_calls) :
          LET c == export_calls[i]
          IN /\ (c.key \in DOMAIN c.pre) =>
                   c.err.type = "TypeError" /\ ExportsAfter(i) = c.pre
             /\ (c.op = "def_attribute" /\ c.value.cls \notin {"PyOnlyDef", "function"}) =>
                   c.err.type = "TypeError" /\ ExportsAfter(i) = c.pre
             /\ (c.op = "add_export" /\ c.key \notin DOMAIN c.pre) =>
                   Ok(c.err) /\ ExportsAfter(i) = Put(c.pre, c.key, c.value)
    /\ DOMAIN all_exports = {key \in ExportKeys : ExportsOf(key) # {}}
    /\ \A key \in DOMAIN all_exports :
          /\ Cardinality(ExportsOf(key)) = 1
          /\ \A i \in ExportsOf(key) : all_exports[key] = Exported(export_calls[i])

\* C30 witness: add_export of another value under an exported key raised
\* TypeError, and the key still maps to the first value.
C30_Witness ==
    /\ Len(export_calls) = 2
    /\ LastExport.op = "add_export"
    /\ LastExport.key \in DOMAIN LastExport.pre
    /\ LastExport.err.type = "TypeError"
    /\ LastExport.value # LastExport.pre[LastExport.key]
    /\ all_exports[LastExport.key] = Exported(export_calls[1])


====
